---------------------------- MODULE Spec2Model ----------------------------
(***************************************************************************)
(* A model of the command dispatcher (src/src/agent.py, class Agent) and   *)
(* of the model-access client (src/src/llm.py, class QwenModel).           *)
(*                                                                         *)
(* Python values are records [t, s, n]: t is the type tag, s the text of   *)
(* a str as a tuple of one-character strings, n the number of an int.      *)
(* Dictionaries are records whose missing keys hold Absent.                *)
(***************************************************************************)
EXTENDS Integers, Sequences, FiniteSets, TLC

(***************************************************************************)
(* String literals of the source, character by character.                  *)
(***************************************************************************)
\* agent.py:138-141, the template up to the embedded command
PromptHead ==
    <<"\n", "Y", "o", "u", " ", "a", "r", "e", " ", "h", "e", "l", "p", "i", "n", "g",
      " ", "p", "r", "o", "c", "e", "s", "s", " ", "u", "s", "e", "r", " ", "c", "o",
      "m", "m", "a", "n", "d", "s", " ", "i", "n", " ", "a", " ", "c", "o", "m", "m",
      "a", "n", "d", "-", "l", "i", "n", "e", " ", "i", "n", "t", "e", "r", "f", "a",
      "c", "e", ".", "\n", "\n", "U", "s", "e", "r", " ", "c", "o", "m", "m", "a", "n",
      "d", ":", " ", "\"">>

\* agent.py:141-157, the template after the embedded command
PromptTail ==
    <<"\"", "\n", "\n", "B", "a", "s", "e", "d", " ", "o", "n", " ", "t", "h", "i", "s",
      " ", "c", "o", "m", "m", "a", "n", "d", ",", " ", "d", "o", " ", "o", "n", "e",
      " ", "o", "f", " ", "t", "h", "e", "s", "e", ":", "\n", "1", ".", " ", "I", "f",
      " ", "i", "t", "'", "s", " ", "a", " ", "s", "y", "s", "t", "e", "m", " ", "c",
      "o", "m", "m", "a", "n", "d", " ", "(", "l", "i", "k", "e", " ", "c", "h", "e",
      "c", "k", "i", "n", "g", " ", "t", "i", "m", "e", ",", " ", "l", "i", "s", "t",
      "i", "n", "g", " ", "f", "i", "l", "e", "s", ",", " ", "e", "t", "c", ".", ")",
      ",", " ", "r", "e", "p", "l", "y", " ", "w", "i", "t", "h", ":", "\n", " ", " ",
      " ", "A", "C", "T", "I", "O", "N", ":", " ", "s", "h", "e", "l", "l", "\n", " ",
      " ", " ", "C", "O", "M", "M", "A", "N", "D", ":", " ", "<", "t", "h", "e", " ",
      "e", "x", "a", "c", "t", " ", "s", "h", "e", "l", "l", " ", "c", "o", "m", "m",
      "a", "n", "d", " ", "t", "o", " ", "r", "u", "n", ">", "\n", "\n", "2", ".", " ",
      "I", "f", " ", "i", "t", "'", "s", " ", "a", " ", "q", "u", "e", "s", "t", "i",
      "o", "n", " ", "o", "r", " ", "c", "o", "n", "v", "e", "r", "s", "a", "t", "i",
      "o", "n", ",", " ", "r", "e", "p", "l", "y", " ", "w", "i", "t", "h", ":", "\n",
      " ", " ", " ", "A", "C", "T", "I", "O", "N", ":", " ", "r", "e", "s", "p", "o",
      "n", "d", "\n", " ", " ", " ", "C", "O", "N", "T", "E", "N", "T", ":", " ", "<",
      "y", "o", "u", "r", " ", "h", "e", "l", "p", "f", "u", "l", " ", "r", "e", "s",
      "p", "o", "n", "s", "e", ">", "\n", "\n", "3", ".", " ", "I", "f", " ", "t", "h",
      "e", "r", "e", "'", "s", " ", "a", "n", " ", "e", "r", "r", "o", "r", " ", "o",
      "r", " ", "y", "o", "u", " ", "c", "a", "n", "'", "t", " ", "p", "r", "o", "c",
      "e", "s", "s", " ", "i", "t", ",", " ", "r", "e", "p", "l", "y", " ", "w", "i",
      "t", "h", ":", "\n", " ", " ", " ", "A", "C", "T", "I", "O", "N", ":", " ", "e",
      "r", "r", "o", "r", "\n", " ", " ", " ", "R", "E", "A", "S", "O", "N", ":", " ",
      "<", "e", "x", "p", "l", "a", "n", "a", "t", "i", "o", "n", " ", "o", "f", " ",
      "t", "h", "e", " ", "e", "r", "r", "o", "r", ">", "\n", "\n", "R", "e", "p", "l",
      "y", " ", "u", "s", "i", "n", "g", " ", "O", "N", "L", "Y", " ", "t", "h", "i",
      "s", " ", "f", "o", "r", "m", "a", "t", ",", " ", "w", "i", "t", "h", " ", "n",
      "o", " ", "a", "d", "d", "i", "t", "i", "o", "n", "a", "l", " ", "t", "e", "x",
      "t", ".", "\n">>

DummyPrefix ==
    <<"T", "h", "i", "s", " ", "i", "s", " ", "a", " ", "d", "u", "m", "m", "y", " ",
      "r", "e", "s", "p", "o", "n", "s", "e", " ", "t", "o", ":", " ">>

SimulatedPrefix ==
    <<"T", "h", "i", "s", " ", "i", "s", " ", "a", " ", "s", "i", "m", "u", "l", "a",
      "t", "e", "d", " ", "r", "e", "s", "p", "o", "n", "s", "e", " ", "t", "o", ":",
      " ">>

OllamaStatusMsg ==
    <<"E", "r", "r", "o", "r", ":", " ", "C", "o", "u", "l", "d", " ", "n", "o", "t",
      " ", "g", "e", "t", " ", "a", " ", "v", "a", "l", "i", "d", " ", "r", "e", "s",
      "p", "o", "n", "s", "e", " ", "f", "r", "o", "m", " ", "O", "l", "l", "a", "m",
      "a", " ", "A", "P", "I", ".", " ", "S", "t", "a", "t", "u", "s", " ", "c", "o",
      "d", "e", ":", " ">>

OllamaCommMsg ==
    <<"E", "r", "r", "o", "r", " ", "c", "o", "m", "m", "u", "n", "i", "c", "a", "t",
      "i", "n", "g", " ", "w", "i", "t", "h", " ", "O", "l", "l", "a", "m", "a", " ",
      "A", "P", "I", " ", "s", "e", "r", "v", "e", "r", ":", " ">>

OllamaParseMsg ==
    <<"E", "r", "r", "o", "r", " ", "p", "a", "r", "s", "i", "n", "g", " ", "r", "e",
      "s", "p", "o", "n", "s", "e", " ", "f", "r", "o", "m", " ", "O", "l", "l", "a",
      "m", "a", " ", "A", "P", "I", " ", "s", "e", "r", "v", "e", "r">>

OllamaUnexpectedMsg ==
    <<"U", "n", "e", "x", "p", "e", "c", "t", "e", "d", " ", "e", "r", "r", "o", "r",
      " ", "w", "i", "t", "h", " ", "O", "l", "l", "a", "m", "a", ":", " ">>

ApiFormatMsg ==
    <<"E", "r", "r", "o", "r", ":", " ", "U", "n", "e", "x", "p", "e", "c", "t", "e",
      "d", " ", "r", "e", "s", "p", "o", "n", "s", "e", " ", "f", "o", "r", "m", "a",
      "t", " ", "f", "r", "o", "m", " ", "A", "P", "I">>

ApiCommMsg ==
    <<"E", "r", "r", "o", "r", " ", "c", "o", "m", "m", "u", "n", "i", "c", "a", "t",
      "i", "n", "g", " ", "w", "i", "t", "h", " ", "A", "P", "I", " ", "s", "e", "r",
      "v", "e", "r", ":", " ">>

ApiParseMsg ==
    <<"E", "r", "r", "o", "r", " ", "p", "a", "r", "s", "i", "n", "g", " ", "r", "e",
      "s", "p", "o", "n", "s", "e", " ", "f", "r", "o", "m", " ", "A", "P", "I", " ",
      "s", "e", "r", "v", "e", "r">>

ApiUnexpectedMsg ==
    <<"U", "n", "e", "x", "p", "e", "c", "t", "e", "d", " ", "e", "r", "r", "o", "r",
      ":", " ">>

EmptyCommandMsg ==
    <<"E", "m", "p", "t", "y", " ", "c", "o", "m", "m", "a", "n", "d">>

TimedOutMsg ==
    <<"C", "o", "m", "m", "a", "n", "d", " ", "e", "x", "e", "c", "u", "t", "i", "o",
      "n", " ", "t", "i", "m", "e", "d", " ", "o", "u", "t", " ", "a", "f", "t", "e",
      "r", " ", "3", "0", " ", "s", "e", "c", "o", "n", "d", "s">>

ExecFailedMsg ==
    <<"C", "o", "m", "m", "a", "n", "d", " ", "e", "x", "e", "c", "u", "t", "i", "o",
      "n", " ", "f", "a", "i", "l", "e", "d", ":", " ">>

ParseFailedMsg ==
    <<"F", "a", "i", "l", "e", "d", " ", "t", "o", " ", "p", "a", "r", "s", "e", " ",
      "L", "L", "M", " ", "r", "e", "s", "p", "o", "n", "s", "e", ":", " ">>

UnknownActionMsg ==
    <<"U", "n", "k", "n", "o", "w", "n", " ", "a", "c", "t", "i", "o", "n", " ", "t",
      "y", "p", "e", ":", " ">>

ConfigErrorMsg ==
    <<"E", "i", "t", "h", "e", "r", " ", "m", "o", "d", "e", "l", "_", "p", "a", "t",
      "h", ",", " ", "a", "p", "i", "_", "u", "r", "l", ",", " ", "o", "r", " ", "o",
      "l", "l", "a", "m", "a", "_", "u", "r", "l", " ", "m", "u", "s", "t", " ", "b",
      "e", " ", "p", "r", "o", "v", "i", "d", "e", "d">>

TagAction ==
    <<"A", "C", "T", "I", "O", "N", ":">>

TagShell ==
    <<"s", "h", "e", "l", "l">>

TagCommand ==
    <<"C", "O", "M", "M", "A", "N", "D", ":">>

TagRespond ==
    <<"r", "e", "s", "p", "o", "n", "d">>

TagContent ==
    <<"C", "O", "N", "T", "E", "N", "T", ":">>

TagError ==
    <<"e", "r", "r", "o", "r">>

TagReason ==
    <<"R", "E", "A", "S", "O", "N", ":">>

PrefixLs ==
    <<"l", "s">>

PrefixCd ==
    <<"c", "d", " ">>

PrefixPwd ==
    <<"p", "w", "d">>

PrefixCat ==
    <<"c", "a", "t", " ">>

PrefixDate ==
    <<"d", "a", "t", "e">>

PrefixEcho ==
    <<"e", "c", "h", "o", " ">>

UpperLetters ==
    <<"A", "B", "C", "D", "E", "F", "G", "H", "I", "J", "K", "L", "M", "N", "O", "P",
      "Q", "R", "S", "T", "U", "V", "W", "X", "Y", "Z">>

LowerLetters ==
    <<"a", "b", "c", "d", "e", "f", "g", "h", "i", "j", "k", "l", "m", "n", "o", "p",
      "q", "r", "s", "t", "u", "v", "w", "x", "y", "z">>

Digits ==
    <<"0", "1", "2", "3", "4", "5", "6", "7", "8", "9">>

DummyModelName ==
    <<"d", "u", "m", "m", "y", "_", "m", "o", "d", "e", "l">>

DummyTokenizerName ==
    <<"d", "u", "m", "m", "y", "_", "t", "o", "k", "e", "n", "i", "z", "e", "r">>

(***************************************************************************)
(* Texts of the exceptions the libraries raise.                             *)
(***************************************************************************)
\* str(e) of the AttributeError of None.startswith (agent.py:89)
AttrErrorMsg ==
    <<"'", "N", "o", "n", "e", "T", "y", "p", "e", "'", " ", "o", "b", "j", "e", "c",
      "t", " ", "h", "a", "s", " ", "n", "o", " ", "a", "t", "t", "r", "i", "b", "u",
      "t", "e", " ", "'", "s", "t", "a", "r", "t", "s", "w", "i", "t", "h", "'">>

\* str(e) of the TypeError re.search raises on a value that is not text (agent.py:173)
ReTypeErrorMsg ==
    <<"e", "x", "p", "e", "c", "t", "e", "d", " ", "s", "t", "r", "i", "n", "g", " ",
      "o", "r", " ", "b", "y", "t", "e", "s", "-", "l", "i", "k", "e", " ", "o", "b",
      "j", "e", "c", "t">>

\* str(e) of the TypeError of `key in value` on a JSON null or number
NotIterableMsg ==
    <<"a", "r", "g", "u", "m", "e", "n", "t", " ", "o", "f", " ", "t", "y", "p", "e",
      " ", "'", "N", "o", "n", "e", "T", "y", "p", "e", "'", " ", "i", "s", " ", "n",
      "o", "t", " ", "i", "t", "e", "r", "a", "b", "l", "e">>

\* str(e) of the TypeError of body[key] on a JSON array
ListIndexMsg ==
    <<"l", "i", "s", "t", " ", "i", "n", "d", "i", "c", "e", "s", " ", "m", "u", "s",
      "t", " ", "b", "e", " ", "i", "n", "t", "e", "g", "e", "r", "s", " ", "o", "r",
      " ", "s", "l", "i", "c", "e", "s", ",", " ", "n", "o", "t", " ", "s", "t", "r">>

\* str(e) of the error response.json() raises on a body that is not JSON
DecodeErrorMsg ==
    <<"E", "x", "p", "e", "c", "t", "i", "n", "g", " ", "v", "a", "l", "u", "e", ":",
      " ", "l", "i", "n", "e", " ", "1", " ", "c", "o", "l", "u", "m", "n", " ", "1",
      " ", "(", "c", "h", "a", "r", " ", "0", ")">>

\* str(e) of a requests timeout
TimeoutExcMsg ==
    <<"R", "e", "a", "d", " ", "t", "i", "m", "e", "d", " ", "o", "u", "t", ".">>

\* the text raise_for_status puts after the status code
HttpErrorSuffix ==
    <<" ", "E", "r", "r", "o", "r", " ", "f", "o", "r", " ", "u", "r", "l">>

\* str(e) of a Popen that fails to spawn
SpawnErrorMsg ==
    <<"e", "m", "b", "e", "d", "d", "e", "d", " ", "n", "u", "l", "l", " ", "b", "y",
      "t", "e">>


\* agent.py:213: action.get("type", "unknown"), the type of an action without one
UnknownTypeName ==
    <<"u", "n", "k", "n", "o", "w", "n">>

\* str(e) of the UnicodeDecodeError communicate raises on output that is no UTF-8
DecodeOutputMsg ==
    <<"'", "u", "t", "f", "-", "8", "'", " ", "c", "o", "d", "e", "c", " ", "c", "a",
      "n", "'", "t", " ", "d", "e", "c", "o", "d", "e", " ", "b", "y", "t", "e", " ",
      "0", "x", "f", "f", " ", "i", "n", " ", "p", "o", "s", "i", "t", "i", "o", "n",
      " ", "0", ":", " ", "i", "n", "v", "a", "l", "i", "d", " ", "s", "t", "a", "r",
      "t", " ", "b", "y", "t", "e">>
(***************************************************************************)
(* Python values.                                                          *)
(***************************************************************************)
PyStr(s) == [t |-> "str", s |-> s, n |-> 0]
PyInt(n) == [t |-> "int", s |-> <<>>, n |-> n]
PyNone == [t |-> "none", s |-> <<>>, n |-> 0]
Absent == [t |-> "absent", s |-> <<>>, n |-> 0]
IsStr(v) == v.t = "str"

\* Python truthiness of an optional str argument: None and "" are falsy.
Truthy(v) == IsStr(v) /\ v.s # <<>>

(***************************************************************************)
(* str operations used by the source.                                      *)
(***************************************************************************)
\* the characters str.strip() removes and the regular expression \s matches
Whitespace == {" ", "\t", "\n", "\r", "\f"}

MinOf(S) == CHOOSE x \in S : \A y \in S : x <= y
MaxOf(S) == CHOOSE x \in S : \A y \in S : y <= x

\* s.startswith(p)
StartsWith(s, p) == Len(s) >= Len(p) /\ SubSeq(s, 1, Len(p)) = p

\* s.strip()
Strip(s) ==
    LET keep == {i \in 1..Len(s) : s[i] \notin Whitespace}
    IN  IF keep = {} THEN <<>> ELSE SubSeq(s, MinOf(keep), MaxOf(keep))

\* s.rstrip('/')
RStripSlash(s) ==
    LET keep == {i \in 1..Len(s) : s[i] # "/"}
    IN  IF keep = {} THEN <<>> ELSE SubSeq(s, 1, MaxOf(keep))

\* needle in haystack, for two str
Contains(hay, needle) ==
    \E i \in 1..(Len(hay) - Len(needle) + 1) : SubSeq(hay, i, i + Len(needle) - 1) = needle

\* str(n) for an int n >= 0
RECURSIVE IntToStr(_)
IntToStr(n) ==
    IF n < 10 THEN <<Digits[n + 1]>>
    ELSE IntToStr(n \div 10) \o <<Digits[(n % 10) + 1]>>

\* re.IGNORECASE on the letters of the protocol tags
LowerChar(c) ==
    IF \E i \in 1..Len(UpperLetters) : UpperLetters[i] = c
    THEN LowerLetters[CHOOSE i \in 1..Len(UpperLetters) : UpperLetters[i] = c]
    ELSE c

\* the literal lit matches s at position i, ignoring case
MatchCI(s, i, lit) ==
    /\ i >= 1
    /\ i + Len(lit) - 1 <= Len(s)
    /\ \A k \in 1..Len(lit) : LowerChar(s[i + k - 1]) = LowerChar(lit[k])

\* the position after the longest run of whitespace that starts at i (greedy \s*)
SkipWs(s, i) ==
    LET stops == {j \in i..Len(s) : s[j] \notin Whitespace}
    IN  IF stops = {} THEN Len(s) + 1 ELSE MinOf(stops)

(***************************************************************************)
(* The three regular expressions of _parse_llm_response,                   *)
(*   ACTION:\s*<kind>\s*\n<FIELD>:\s*(.*?)(?:<end>|$)                       *)
(* under re.IGNORECASE | re.DOTALL.  Both tags begin with a letter, so the *)
(* greedy \s* before each can only stop at the end of its whitespace run,  *)
(* and the \n before the field is the last character of that run.          *)
(***************************************************************************)
\* the position after "<FIELD>:" when the header matches at i, else 0
HeaderEnd(s, i, kind, field) ==
    LET b == SkipWs(s, i + Len(TagAction))
        c == b + Len(kind)
        d == SkipWs(s, c)
    IN  IF /\ MatchCI(s, i, TagAction)
           /\ MatchCI(s, b, kind)
           /\ d > c
           /\ s[d - 1] = "\n"
           /\ MatchCI(s, d, field)
        THEN d + Len(field)
        ELSE 0

\* re.search: the leftmost position where the header matches, else 0
SearchHeader(s, kind, field) ==
    LET hits == {i \in 1..Len(s) : HeaderEnd(s, i, kind, field) # 0}
    IN  IF hits = {} THEN 0 ELSE MinOf(hits)

\* A variant of GroupToNewline that runs on to the end of the text.
GroupToEnd(s, e) == SubSeq(s, SkipWs(s, e), Len(s))

\* group(1) of \s*(.*?)(?:\n|$) from position e: the lazy group ends at the
\* first newline, or at the end of the text
GroupToNewline(s, e) ==
    LET g == SkipWs(s, e)
        ends == {h \in g..Len(s) : s[h] = "\n"}
        h == IF ends = {} THEN Len(s) + 1 ELSE MinOf(ends)
    IN  SubSeq(s, g, h - 1)

\* group(1) of \s*(.*?)(?:\n\n|$) from position e: the lazy group ends at the
\* first blank line, or where $ matches (the end, or before a final newline)
GroupToBlankLine(s, e) ==
    LET g == SkipWs(s, e)
        ends == {h \in g..Len(s) :
                    \/ (s[h] = "\n" /\ h < Len(s) /\ s[h + 1] = "\n")
                    \/ (h = Len(s) /\ s[h] = "\n")}
        h == IF ends = {} THEN Len(s) + 1 ELSE MinOf(ends)
    IN  SubSeq(s, g, h - 1)

(***************************************************************************)
(* Actions (the dict the parser returns) and _parse_llm_response.          *)
(***************************************************************************)
MkAction(type, command, content, error, original) ==
    [type |-> type, command |-> command, content |-> content,
     error |-> error, original_response |-> original]

ShellAction(cmd) == MkAction("shell_command", cmd, Absent, Absent, Absent)
ResponseAction(content) == MkAction("response", Absent, content, Absent, Absent)
ErrorAction(reason) == MkAction("error", Absent, Absent, reason, Absent)
NoAction == MkAction("none", Absent, Absent, Absent, Absent)

\* A variant of fallback_action that trims the text.
fallback_action_stripped(response) == ResponseAction(PyStr(Strip(response.s)))

\* A variant of fallback_action that tags the wrapped reply as plain text.
fallback_action_untyped(response) == MkAction("text", Absent, response, Absent, Absent)

\* A variant of fallback_action that turns a reply that reports an error into an error action.
fallback_action_error_prefix(response) ==
    IF StartsWith(response.s, <<"E", "r", "r", "o", "r">>)
    THEN ErrorAction(response)
    ELSE ResponseAction(response)

\* agent.py:188-193: a reply that matches no pattern is wrapped as it is
fallback_action(response) == ResponseAction(response)

\* A variant of first_match that takes the block that comes first in the text.
first_match_leftmost(shell_match, respond_match, error_match) ==
    LET hits == {shell_match, respond_match, error_match} \ {0}
    IN  IF hits = {} THEN "none"
        ELSE IF shell_match = MinOf(hits) THEN "shell"
        ELSE IF respond_match = MinOf(hits) THEN "respond"
        ELSE "error"

\* agent.py:173-186: the three searches are tried in this order and the first
\* that matches returns
first_match(shell_match, respond_match, error_match) ==
    IF shell_match # 0 THEN "shell"
    ELSE IF respond_match # 0 THEN "respond"
    ELSE IF error_match # 0 THEN "error"
    ELSE "none"

\* A variant of parse_failure_action that drops the reply.
parse_failure_action_no_original(msg, response) ==
    MkAction("error", Absent, Absent, PyStr(ParseFailedMsg \o msg), Absent)

\* agent.py:195-201: the except clause of _parse_llm_response
parse_failure_action(msg, response) ==
    MkAction("error", Absent, Absent, PyStr(ParseFailedMsg \o msg), response)

parse_llm_response(response) ==
    IF ~IsStr(response)
    THEN parse_failure_action(ReTypeErrorMsg, response)
    ELSE LET s == response.s
             shell_match == SearchHeader(s, TagShell, TagCommand)
             respond_match == SearchHeader(s, TagRespond, TagContent)
             error_match == SearchHeader(s, TagError, TagReason)
             chosen == first_match(shell_match, respond_match, error_match)
         IN  IF chosen = "shell"
             THEN ShellAction(PyStr(Strip(GroupToNewline(s,
                      HeaderEnd(s, shell_match, TagShell, TagCommand)))))
             ELSE IF chosen = "respond"
             THEN ResponseAction(PyStr(Strip(GroupToBlankLine(s,
                      HeaderEnd(s, respond_match, TagRespond, TagContent)))))
             ELSE IF chosen = "error"
             THEN ErrorAction(PyStr(Strip(GroupToNewline(s,
                      HeaderEnd(s, error_match, TagError, TagReason)))))
             ELSE fallback_action(response)

(***************************************************************************)
(* Inputs: the commands, model replies and configuration values drawn on.   *)
(***************************************************************************)
CmdLs ==
    <<"l", "s">>

CmdLsof ==
    <<"l", "s", "o", "f">>

CmdCd ==
    <<"c", "d", " ", "/", "t", "m", "p">>

CmdPwd ==
    <<"p", "w", "d">>

CmdCat ==
    <<"c", "a", "t", " ", "f">>

CmdDate ==
    <<"d", "a", "t", "e">>

CmdEcho ==
    <<"e", "c", "h", "o", " ", "h", "i">>

CmdLeadingWs ==
    <<" ", " ", "l", "s", " ", "-", "l", "a">>

CmdBareCd ==
    <<"c", "d">>

CmdQuestion ==
    <<"h", "i", "?">>

ReplyShell ==
    <<"A", "C", "T", "I", "O", "N", ":", " ", "s", "h", "e", "l", "l", "\n", "C", "O",
      "M", "M", "A", "N", "D", ":", " ", "l", "s", " ", "-", "l", "a">>

ReplyRespond ==
    <<"A", "C", "T", "I", "O", "N", ":", " ", "r", "e", "s", "p", "o", "n", "d", "\n",
      "C", "O", "N", "T", "E", "N", "T", ":", " ", "h", "e", "l", "l", "o", "\n", "\n">>

ReplyError ==
    <<"A", "C", "T", "I", "O", "N", ":", " ", "e", "r", "r", "o", "r", "\n", "R", "E",
      "A", "S", "O", "N", ":", " ", "b", "a", "d">>

ReplyPlain ==
    <<"h", "e", "l", "l", "o">>

ReplyBlankCommand ==
    <<"A", "C", "T", "I", "O", "N", ":", " ", "s", "h", "e", "l", "l", "\n", "C", "O",
      "M", "M", "A", "N", "D", ":", " ", " ", " ">>

ReplyTwoBlocks ==
    <<"A", "C", "T", "I", "O", "N", ":", " ", "e", "r", "r", "o", "r", "\n", "R", "E",
      "A", "S", "O", "N", ":", " ", "r", "\n", "A", "C", "T", "I", "O", "N", ":", " ",
      "s", "h", "e", "l", "l", "\n", "C", "O", "M", "M", "A", "N", "D", ":", " ", "p",
      "w", "d">>

OllamaUrl ==
    <<"h", "t", "t", "p", ":", "/", "/", "o", "/">>

ApiUrl ==
    <<"h", "t", "t", "p", ":", "/", "/", "a">>

ModelPath ==
    <<".", "/", "w">>

ModelName ==
    <<"l", "l", "a", "m", "a", "3">>

PromptShort ==
    <<"h", "i">>

OutText ==
    <<"h", "i", "\n">>

ErrText ==
    <<"s", "h", ":", " ", "1", ":", " ", "n", "o", "t", " ", "f", "o", "u", "n", "d",
      "\n">>

(***************************************************************************)
(* Inputs of the parser: protocol blocks in several letter cases, what may  *)
(* follow a block, and replies that hold no block.                         *)
(***************************************************************************)
ShellBlockUpper ==
    <<"A", "C", "T", "I", "O", "N", ":", " ", "s", "h", "e", "l", "l", "\n", "C", "O",
      "M", "M", "A", "N", "D", ":", " ">>

ShellBlockLower ==
    <<"a", "c", "t", "i", "o", "n", ":", " ", "s", "h", "e", "l", "l", "\n", "c", "o",
      "m", "m", "a", "n", "d", ":", " ">>

ShellBlockMixed ==
    <<"A", "c", "T", "i", "O", "n", ":", " ", "S", "h", "E", "l", "L", "\n", "c", "O",
      "m", "M", "a", "N", "d", ":", " ">>

TrailerLine ==
    <<"\n", "r", "m", " ", "x">>

TrailerBlock ==
    <<"\n", "\n", "A", "C", "T", "I", "O", "N", ":", " ", "r", "e", "s", "p", "o", "n",
      "d", "\n", "C", "O", "N", "T", "E", "N", "T", ":", " ", "x">>

ReplyNoTag ==
    <<" ", " ", "j", "u", "s", "t", " ", "t", "e", "x", "t", " ", "\n">>

ReplyActionAlone ==
    <<"A", "C", "T", "I", "O", "N", ":", " ", "s", "h", "e", "l", "l">>

ReplyWrongField ==
    <<" ", "A", "C", "T", "I", "O", "N", ":", " ", "s", "h", "e", "l", "l", "\n", "C",
      "O", "N", "T", "E", "N", "T", ":", " ", "h", "i", "\n">>

ReplySameLine ==
    <<"A", "C", "T", "I", "O", "N", ":", " ", "s", "h", "e", "l", "l", " ", "C", "O",
      "M", "M", "A", "N", "D", ":", " ", "l", "s">>

ReplyUnknownKind ==
    <<"A", "C", "T", "I", "O", "N", ":", " ", "r", "u", "n", "\n", "C", "O", "M", "M",
      "A", "N", "D", ":", " ", "l", "s", "\n", "\n">>

ReplyFieldFirst ==
    <<"C", "O", "M", "M", "A", "N", "D", ":", " ", "l", "s", "\n", "A", "C", "T", "I",
      "O", "N", ":", " ", "s", "h", "e", "l", "l", " ">>

(***************************************************************************)
(* Bounds and input sets.                                                  *)
(***************************************************************************)
\* the number of process_command calls (and of standalone generate calls) explored
MaxCalls == 2

\* llm.py:167, 208: the only status the Ollama handlers accept
HTTP_OK == 200
\* requests' raise_for_status raises for 400 <= status < 600 (llm.py:270)
HTTP_ERROR_MIN == 400

HttpStatuses == {HTTP_OK, 201, 304, 404, 500}

\* the commands handed to process_command; PyNone stands for a command that is no str
Commands ==
    {PyStr(c) : c \in {CmdLs, CmdLsof, CmdCd, CmdPwd, CmdCat, CmdDate, CmdEcho,
                       CmdLeadingWs, CmdBareCd, CmdQuestion}} \cup {PyNone}

ReplyTexts ==
    {ReplyShell, ReplyRespond, ReplyError, ReplyPlain, ReplyBlankCommand, ReplyTwoBlocks}

\* the JSON values a body carries in its `response` or `message.content` field
BodyValues == {PyStr(ReplyShell), PyStr(ReplyPlain), PyNone, PyInt(42)}
AgentBodyValues == {PyStr(r) : r \in ReplyTexts} \cup {PyNone}

\* A response body: json is "invalid" (response.json() raises; decode tells whether
\* the error is requests' JSONDecodeError, a RequestException, or the json module's),
\* "scalar" (a number or null), "array" (an array without the key looked up),
\* "array_key" (an array that holds the key as an element, so that `key in body` is
\* true and body[key] raises) or "object"; message is the kind of the object's
\* `message` member.
MkBody(json, decode, response, message, content) ==
    [json |-> json, decode |-> decode, response |-> response,
     message |-> message, content |-> content]

NoBody == MkBody("none", "none", Absent, "absent", Absent)

BodiesOver(values) ==
    {MkBody("invalid", d, Absent, "absent", Absent) : d \in {"requests", "json"}}
    \cup {MkBody("scalar", "none", Absent, "absent", Absent),
          MkBody("array", "none", Absent, "absent", Absent),
          MkBody("array_key", "none", Absent, "absent", Absent)}
    \cup {MkBody("object", "none", r, m, Absent) :
            r \in values \cup {Absent}, m \in {"absent", "null", "list"}}
    \cup {MkBody("object", "none", Absent, "dict", c) : c \in values \cup {Absent}}

\* The outcome of one HTTP request: an exception out of requests.post (exc is
\* "request" for a RequestException, "other" for any other Exception), or a response.
MkOutcome(kind, exc, msg, status, body) ==
    [kind |-> kind, exc |-> exc, msg |-> msg, status |-> status, body |-> body]

NoOutcome == MkOutcome("none", "none", <<>>, 0, NoBody)

HttpOutcomes ==
    {MkOutcome("exception", x, TimeoutExcMsg, 0, NoBody) : x \in {"request", "other"}}
    \cup {MkOutcome("response", "none", <<>>, st, b) :
            st \in HttpStatuses, b \in BodiesOver(BodyValues)}

\* the outcomes drawn on when the client runs under the dispatcher
AgentHttpOutcomes ==
    {MkOutcome("exception", "request", TimeoutExcMsg, 0, NoBody),
     MkOutcome("response", "none", <<>>, 500, MkBody("invalid", "requests", Absent, "absent", Absent)),
     MkOutcome("response", "none", <<>>, HTTP_OK, MkBody("object", "none", Absent, "absent", Absent)),
     MkOutcome("response", "none", <<>>, 201, MkBody("object", "none", PyStr(ReplyPlain), "absent", Absent))}
    \cup {MkOutcome("response", "none", <<>>, HTTP_OK, MkBody("object", "none", v, "absent", Absent)) :
            v \in AgentBodyValues}
    \cup {MkOutcome("response", "none", <<>>, HTTP_OK, MkBody("object", "none", Absent, "dict", v)) :
            v \in {PyStr(ReplyRespond), PyNone}}

\* constructor arguments
MkConfig(model_path, api_url, ollama_url) ==
    [model_path |-> model_path, api_url |-> api_url, ollama_url |-> ollama_url,
     model_name |-> PyStr(ModelName)]

NoConfig == MkConfig(Absent, Absent, Absent)

Unset == {PyNone, PyStr(<<>>)}

Configs ==
    {MkConfig(p, a, o) : p \in Unset \cup {PyStr(ModelPath)},
                         a \in Unset \cup {PyStr(ApiUrl)},
                         o \in Unset \cup {PyStr(OllamaUrl)}}

\* the configurations the dispatcher is constructed with
AgentConfigs ==
    {MkConfig(p, a, o) : p \in Unset, a \in Unset, o \in Unset}
    \cup {MkConfig(PyStr(ModelPath), PyNone, PyNone),
          MkConfig(PyNone, PyStr(ApiUrl), PyNone),
          MkConfig(PyNone, PyNone, PyStr(OllamaUrl))}

Prompts == {PyStr(PromptShort), PyStr(ReplyShell)}

\* what a subprocess that exits leaves: its exit code, stdout and stderr
MkExit(return_code, stdout, stderr) ==
    [return_code |-> return_code, stdout |-> stdout, stderr |-> stderr]

Exits == {MkExit(0, OutText, <<>>), MkExit(0, <<>>, <<>>), MkExit(1, <<>>, ErrText)}

(***************************************************************************)
(* The state.                                                              *)
(***************************************************************************)
VARIABLES
    agent,            \* "none", then "ready" once Agent(...) returned, "failed" once it raised
    client,           \* the same for the QwenModel
    ctor_error,       \* the error the constructor raised, else Absent
    cfg,              \* the constructor's arguments
    llm,              \* the QwenModel's fields
    command_history,  \* Agent.command_history
    running,          \* Agent.running
    pc,               \* where the call in progress stands
    command,          \* the argument of the process_command call in progress
    prompt,           \* the argument of the generate call in progress
    llm_response,     \* what generate returned
    action,           \* the action process_command executes
    result,           \* what _execute_action returned
    envelope,         \* what process_command returned
    escaped,          \* an exception left process_command
    calls,            \* the number of process_command calls made
    submitted,        \* their arguments, in call order
    generate_calls,   \* the number of generate calls of the call in progress
    transport,        \* the transport generate dispatched to
    http_log,         \* the HTTP requests of the operation in progress, with their outcomes
    spawns,           \* the number of subprocesses spawned by the call in progress
    proc,             \* the processes of the subprocess spawned: the shell and its child
    threads,          \* the threads that call process_command on the one Agent
    memo,             \* fib.py: the default dict of fibonacci_memo, shared by its calls
    fib               \* fib.py: the last Fibonacci call made, with its result

vars ==
    <<agent, client, ctor_error, cfg, llm, command_history, running, pc, command,
      prompt, llm_response, action, result, envelope, escaped, calls, submitted,
      generate_calls, transport, http_log, spawns, proc, threads, memo, fib>>

agentVars == <<agent, command_history, running>>
clientVars == <<client, ctor_error, cfg, llm>>
callVars == <<command, action, result, envelope, escaped, calls, submitted, spawns, proc>>
genVars == <<prompt, llm_response, generate_calls, transport, http_log>>
fibVars == <<memo, fib>>

\* fib.py:8: the default argument memo={} before any call
NoMemo == [k \in {} |-> 0]

\* no Fibonacci function has been called
NoFib == [fn |-> "none", n |-> 0, value |-> 0]

(***************************************************************************)
(* Threads that call process_command on one Agent.                         *)
(***************************************************************************)
\* the number of threads
MaxThreads == 2

Threads == 1..MaxThreads

\* A thread: pc is "idle", "called" (it has evaluated self.command_history and is
\* about to call append), "appended" or "returned"; seen is the content the list had
\* when the thread evaluated the attribute.
MkThread(tpc, cmd, seen) == [pc |-> tpc, command |-> cmd, seen |-> seen]

NoThreads == [t \in Threads |-> MkThread("idle", Absent, <<>>)]

(***************************************************************************)
(* QwenModel.__init__                                                      *)
(***************************************************************************)
MkClient(mode, api_url, ollama_url, model_name, model, tokenizer) ==
    [mode |-> mode, api_url |-> api_url, ollama_url |-> ollama_url,
     model_name |-> model_name, model |-> model, tokenizer |-> tokenizer]

NoClient == MkClient("none", Absent, Absent, Absent, Absent, Absent)

\* One entry of the log of HTTP requests.
Request(endpoint, outcome) == [endpoint |-> endpoint, outcome |-> outcome]

\* Variants of select_mode: the remote service ahead of the inference server; a
\* default to the local mode where the constructor raises; a rejection of every
\* configuration that sets more than one field.
select_mode_api_first(c) ==
    IF Truthy(c.api_url) THEN "api"
    ELSE IF Truthy(c.ollama_url) THEN "ollama"
    ELSE IF Truthy(c.model_path) THEN "direct"
    ELSE "none"

select_mode_default_direct(c) ==
    IF Truthy(c.ollama_url) THEN "ollama"
    ELSE IF Truthy(c.api_url) THEN "api"
    ELSE "direct"

select_mode_exclusive(c) ==
    IF Cardinality({f \in {"model_path", "api_url", "ollama_url"} : Truthy(c[f])}) # 1
    THEN "none"
    ELSE IF Truthy(c.ollama_url) THEN "ollama"
    ELSE IF Truthy(c.api_url) THEN "api"
    ELSE "direct"

\* llm.py:46, 61, 66, 84: the branch the constructor takes ("none": it raises)
select_mode(c) ==
    IF Truthy(c.ollama_url) THEN "ollama"
    ELSE IF Truthy(c.api_url) THEN "api"
    ELSE IF Truthy(c.model_path) THEN "direct"
    ELSE "none"

\* The constructor: the client it leaves, or the error it raises, and whether it
\* probed GET /api/version.  Both branches of the os.path.exists test end in
\* _init_dummy_model.
QwenModel_init(c, path_exists) ==
    IF select_mode(c) = "ollama"
    THEN [raised |-> FALSE, error |-> Absent, probe |-> TRUE,
          llm |-> MkClient("ollama", c.api_url, PyStr(RStripSlash(c.ollama_url.s)),
                           c.model_name, PyNone, PyNone)]
    ELSE IF select_mode(c) = "api"
    THEN [raised |-> FALSE, error |-> Absent, probe |-> FALSE,
          llm |-> MkClient("api", c.api_url, c.ollama_url, c.model_name, PyNone, PyNone)]
    ELSE IF select_mode(c) = "direct"
    THEN [raised |-> FALSE, error |-> Absent, probe |-> FALSE,
          llm |-> IF path_exists
                  THEN MkClient("direct", c.api_url, c.ollama_url, c.model_name,
                                PyStr(DummyModelName), PyStr(DummyTokenizerName))
                  ELSE MkClient("direct", c.api_url, c.ollama_url, c.model_name,
                                PyStr(DummyModelName), PyStr(DummyTokenizerName))]
    ELSE [raised |-> TRUE, error |-> PyStr(ConfigErrorMsg), probe |-> FALSE,
          llm |-> NoClient]

ProbeLog(r) ==
    IF r.probe THEN <<Request("GET /api/version", NoOutcome)>> ELSE <<>>

\* QwenModel(...) on its own, as the API server script constructs it
ClientConstruct(c, path_exists) ==
    LET r == QwenModel_init(c, path_exists)
    IN  /\ client = "none"
        /\ agent = "none"
        /\ cfg' = c
        /\ client' = IF r.raised THEN "failed" ELSE "ready"
        /\ ctor_error' = r.error
        /\ llm' = r.llm
        /\ http_log' = ProbeLog(r)
        /\ UNCHANGED <<threads, fibVars, agentVars, pc, callVars, prompt, llm_response, generate_calls, transport>>

\* Agent.__init__: constructs the client, re-raises its error, then sets its own fields
AgentConstruct(c, path_exists) ==
    LET r == QwenModel_init(c, path_exists)
    IN  /\ client = "none"
        /\ agent = "none"
        /\ cfg' = c
        /\ client' = IF r.raised THEN "failed" ELSE "ready"
        /\ agent' = IF r.raised THEN "failed" ELSE "ready"
        /\ ctor_error' = r.error
        /\ llm' = r.llm
        /\ http_log' = ProbeLog(r)
        /\ command_history' = <<>>
        /\ running' = FALSE
        /\ UNCHANGED <<threads, fibVars, pc, callVars, prompt, llm_response, generate_calls, transport>>

(***************************************************************************)
(* Agent.start, Agent.stop                                                 *)
(***************************************************************************)
Start ==
    /\ agent = "ready"
    /\ pc \in {"idle", "returned"}
    /\ running' = TRUE
    /\ UNCHANGED <<threads, fibVars, agent, command_history, clientVars, pc, callVars, genVars>>

\* A variant of Stop that also forgets the commands received.
Stop_clearing_history ==
    /\ agent = "ready"
    /\ pc \in {"idle", "returned"}
    /\ running' = FALSE
    /\ command_history' = <<>>
    /\ UNCHANGED <<threads, fibVars, agent, clientVars, pc, callVars, genVars>>

Stop ==
    /\ agent = "ready"
    /\ pc \in {"idle", "returned"}
    /\ running' = FALSE
    /\ UNCHANGED <<threads, fibVars, agent, command_history, clientVars, pc, callVars, genVars>>

(***************************************************************************)
(* QwenModel.generate and its three transports                             *)
(***************************************************************************)
\* generate: the transport the mode selects
generate_dispatch(mode) ==
    IF mode = "ollama" THEN "ollama"
    ELSE IF mode = "api" THEN "api"
    ELSE "direct"

\* the sampling arguments of generate; temperature and top_p in tenths
MkParams(max_tokens, temperature, top_p) ==
    [max_tokens |-> max_tokens, temperature |-> temperature, top_p |-> top_p]

\* llm.py:111: the defaults, and other values a caller may pass
GenParams == {MkParams(m, t, p) : m \in {1, 1024}, t \in {0, 7}, p \in {9, 10}}

\* agent.py:98-102: max_tokens=1024, temperature=0.7, top_p left at its default
AgentGenParams == {MkParams(1024, 7, 9)}

\* A variant of generate_direct that cuts the text to max_tokens characters.
generate_direct_truncated(c, p, g) ==
    PyStr(SubSeq(DummyPrefix \o p.s, 1, MinOf({g.max_tokens, Len(DummyPrefix \o p.s)})))

\* _generate_direct: the sampling arguments are not used
generate_direct(c, p, g) ==
    IF c.model = PyStr(DummyModelName)
    THEN PyStr(DummyPrefix \o p.s)
    ELSE PyStr(SimulatedPrefix \o p.s)

\* A variant of completion_attempt that does not test the status.
completion_attempt_any_status(o) ==
    IF /\ o.kind = "response"
       /\ o.body.json = "object"
       /\ o.body.response # Absent
    THEN [done |-> TRUE, value |-> o.body.response]
    ELSE [done |-> FALSE, value |-> Absent]

\* The first try block of _generate_via_ollama: done with the value returned, or
\* not done when control falls through to the chat endpoint.
completion_attempt(o) ==
    IF /\ o.kind = "response"
       /\ o.status = HTTP_OK
       /\ o.body.json = "object"
       /\ o.body.response # Absent
    THEN [done |-> TRUE, value |-> o.body.response]
    ELSE [done |-> FALSE, value |-> Absent]

\* A variant of ollama_status_text that leaves the code out.
ollama_status_text_no_code(status) == PyStr(OllamaStatusMsg)

\* llm.py:223
ollama_status_text(status) == PyStr(OllamaStatusMsg \o IntToStr(status))

\* The second try block of _generate_via_ollama: the value returned.
chat_attempt(o) ==
    IF o.kind = "exception"
    THEN IF o.exc = "request"
         THEN PyStr(OllamaCommMsg \o o.msg)
         ELSE PyStr(OllamaUnexpectedMsg \o o.msg)
    ELSE IF o.status # HTTP_OK
    THEN ollama_status_text(o.status)
    ELSE IF o.body.json = "invalid"
    THEN IF o.body.decode = "requests"
         THEN PyStr(OllamaCommMsg \o DecodeErrorMsg)
         ELSE PyStr(OllamaParseMsg)
    ELSE IF o.body.json = "scalar"
    THEN PyStr(OllamaUnexpectedMsg \o NotIterableMsg)
    ELSE IF o.body.json = "array_key"
    THEN PyStr(OllamaUnexpectedMsg \o ListIndexMsg)
    ELSE IF o.body.json = "array"
    THEN ollama_status_text(o.status)
    ELSE IF o.body.message = "null"
    THEN PyStr(OllamaUnexpectedMsg \o NotIterableMsg)
    ELSE IF o.body.message = "dict" /\ o.body.content # Absent
    THEN o.body.content
    ELSE ollama_status_text(o.status)

\* A variant of api_attempt that accepts the status 200 only.
api_attempt_only_200(o) ==
    IF o.kind = "exception"
    THEN IF o.exc = "request"
         THEN PyStr(ApiCommMsg \o o.msg)
         ELSE PyStr(ApiUnexpectedMsg \o o.msg)
    ELSE IF o.status # HTTP_OK
    THEN PyStr(ApiCommMsg \o IntToStr(o.status) \o HttpErrorSuffix)
    ELSE IF o.body.json = "invalid"
    THEN IF o.body.decode = "requests"
         THEN PyStr(ApiCommMsg \o DecodeErrorMsg)
         ELSE PyStr(ApiParseMsg)
    ELSE IF o.body.json = "scalar"
    THEN PyStr(ApiUnexpectedMsg \o NotIterableMsg)
    ELSE IF o.body.json = "array_key"
    THEN PyStr(ApiUnexpectedMsg \o ListIndexMsg)
    ELSE IF o.body.json = "array" \/ o.body.response = Absent
    THEN PyStr(ApiFormatMsg)
    ELSE o.body.response

\* _generate_via_api: the value returned.
api_attempt(o) ==
    IF o.kind = "exception"
    THEN IF o.exc = "request"
         THEN PyStr(ApiCommMsg \o o.msg)
         ELSE PyStr(ApiUnexpectedMsg \o o.msg)
    ELSE IF o.status >= HTTP_ERROR_MIN
    THEN PyStr(ApiCommMsg \o IntToStr(o.status) \o HttpErrorSuffix)
    ELSE IF o.body.json = "invalid"
    THEN IF o.body.decode = "requests"
         THEN PyStr(ApiCommMsg \o DecodeErrorMsg)
         ELSE PyStr(ApiParseMsg)
    ELSE IF o.body.json = "scalar"
    THEN PyStr(ApiUnexpectedMsg \o NotIterableMsg)
    ELSE IF o.body.json = "array_key"
    THEN PyStr(ApiUnexpectedMsg \o ListIndexMsg)
    ELSE IF o.body.json = "array" \/ o.body.response = Absent
    THEN PyStr(ApiFormatMsg)
    ELSE o.body.response

\* generate is entered: it dispatches on self.mode
Generate ==
    \E g \in IF agent = "ready" THEN AgentGenParams ELSE GenParams :
        /\ pc = "generate"
        /\ generate_calls' = generate_calls + 1
        /\ transport' = generate_dispatch(llm.mode)
        /\ http_log' = <<>>
        /\ IF generate_dispatch(llm.mode) = "ollama"
           THEN pc' = "completion" /\ UNCHANGED llm_response
           ELSE IF generate_dispatch(llm.mode) = "api"
           THEN pc' = "api_post" /\ UNCHANGED llm_response
           ELSE pc' = "generated" /\ llm_response' = generate_direct(llm, prompt, g)
        /\ UNCHANGED <<threads, fibVars, agentVars, clientVars, callVars, prompt>>

\* POST {ollama_url}/api/completion and the handling of its outcome
OllamaCompletion(o) ==
    LET r == completion_attempt(o)
    IN  /\ pc = "completion"
        /\ http_log' = Append(http_log, Request("POST /api/completion", o))
        /\ IF r.done
           THEN pc' = "generated" /\ llm_response' = r.value
           ELSE pc' = "chat" /\ UNCHANGED llm_response
        /\ UNCHANGED <<threads, fibVars, agentVars, clientVars, callVars, prompt, generate_calls, transport>>

\* A variant of chat_next that posts to /api/chat again after an exception.
chat_next_retry(o) == IF o.kind = "exception" THEN "chat" ELSE "generated"

\* llm.py:202-233: every branch of the second try block returns; there is no loop
chat_next(o) == "generated"

\* POST {ollama_url}/api/chat and the handling of its outcome
OllamaChat(o) ==
    /\ pc = "chat"
    /\ http_log' = Append(http_log, Request("POST /api/chat", o))
    /\ llm_response' = chat_attempt(o)
    /\ pc' = chat_next(o)
    /\ UNCHANGED <<threads, fibVars, agentVars, clientVars, callVars, prompt, generate_calls, transport>>

\* POST {api_url}/query and the handling of its outcome
ApiPost(o) ==
    /\ pc = "api_post"
    /\ http_log' = Append(http_log, Request("POST /query", o))
    /\ llm_response' = api_attempt(o)
    /\ pc' = "generated"
    /\ UNCHANGED <<threads, fibVars, agentVars, clientVars, callVars, prompt, generate_calls, transport>>

\* generate called on the client directly (deploy_api_server_qwen25_72b.py:72)
ClientCall(p) ==
    /\ client = "ready"
    /\ agent = "none"
    /\ pc = "idle"
    /\ prompt' = p
    /\ pc' = "generate"
    /\ llm_response' = Absent
    /\ generate_calls' = 0
    /\ transport' = "none"
    /\ http_log' = <<>>
    /\ UNCHANGED <<threads, fibVars, agentVars, clientVars, callVars>>

\* that call returns to its caller
ClientReturn ==
    /\ agent = "none"
    /\ pc = "generated"
    /\ pc' = "idle"
    /\ UNCHANGED <<threads, fibVars, agentVars, clientVars, callVars, genVars>>

(***************************************************************************)
(* Agent.process_command                                                   *)
(***************************************************************************)
\* The processes behind a Popen(command, shell=True).  shell is "none", "running",
\* "reaped" (it exited and was waited for), "killed" (it was sent SIGKILL and has not
\* been waited for) or "killed_reaped" (it was sent SIGKILL and then waited for);
\* child is the process the shell started for the command, "none" where the shell
\* ran the command in its own process, "exited" once it is gone.
MkProc(shell, child) == [shell |-> shell, child |-> child]

NoProc == MkProc("none", "none")

MkResult(status, stdout, stderr, return_code, output, error) ==
    [status |-> status, stdout |-> stdout, stderr |-> stderr,
     return_code |-> return_code, output |-> output, error |-> error]

NoResult == MkResult("absent", Absent, Absent, Absent, Absent, Absent)

MkEnvelope(status, act, res, error) ==
    [status |-> status, action |-> act, result |-> res, error |-> error]

NoEnvelope == MkEnvelope("none", "absent", NoResult, Absent)

\* A variant of history_append that records only a command that is text.
history_append_if_text(history, cmd) ==
    IF IsStr(cmd) THEN Append(history, cmd) ELSE history

\* agent.py:85
history_append(history, cmd) == Append(history, cmd)

\* Variants of is_fast_path: without the echo prefix; on the trimmed command.
is_fast_path_no_echo(s) ==
    \/ StartsWith(s, PrefixLs)
    \/ StartsWith(s, PrefixCd)
    \/ StartsWith(s, PrefixPwd)
    \/ StartsWith(s, PrefixCat)
    \/ StartsWith(s, PrefixDate)

is_fast_path_trimmed(s) ==
    \E p \in {PrefixLs, PrefixCd, PrefixPwd, PrefixCat, PrefixDate, PrefixEcho} :
        StartsWith(Strip(s), p)

\* agent.py:89-90: the fast-path test, on the command as given
is_fast_path(s) ==
    \/ StartsWith(s, PrefixLs)
    \/ StartsWith(s, PrefixCd)
    \/ StartsWith(s, PrefixPwd)
    \/ StartsWith(s, PrefixCat)
    \/ StartsWith(s, PrefixDate)
    \/ StartsWith(s, PrefixEcho)

\* _create_system_prompt
create_system_prompt(cmd) == PyStr(PromptHead \o cmd.s \o PromptTail)

\* A variant of handle_exception that lets the exception go on to the caller.
handle_exception_reraise(msg) ==
    [escaped |-> TRUE, envelope |-> NoEnvelope]

\* agent.py:120-125: the except clause of process_command
handle_exception(msg) ==
    [escaped |-> FALSE, envelope |-> MkEnvelope("error", "absent", NoResult, PyStr(msg))]

\* A variant of success_envelope that passes on the status of a failed result.
success_envelope_inner_status(a, r) ==
    MkEnvelope(IF r.status = "error" \/ r.error # Absent THEN "error" ELSE "success",
               a.type, r, Absent)

\* agent.py:114-118
success_envelope(a, r) == MkEnvelope("success", a.type, r, Absent)

\* process_command is called: it appends the command as given, before the try block
ProcessCommandCall(cmd) ==
    /\ agent = "ready"
    /\ pc \in {"idle", "returned"}
    /\ calls < MaxCalls
    /\ command_history' = history_append(command_history, cmd)
    /\ calls' = calls + 1
    /\ submitted' = Append(submitted, cmd)
    /\ command' = cmd
    /\ pc' = "classify"
    /\ prompt' = Absent
    /\ llm_response' = Absent
    /\ action' = NoAction
    /\ result' = NoResult
    /\ envelope' = NoEnvelope
    /\ escaped' = FALSE
    /\ generate_calls' = 0
    /\ transport' = "none"
    /\ http_log' = <<>>
    /\ spawns' = 0
    /\ proc' = NoProc
    /\ UNCHANGED <<threads, fibVars, agent, running, clientVars>>

\* agent.py:89-95: startswith raises on a command that is no str; a fast-path command
\* becomes a shell action; any other command is put into the prompt
Classify ==
    /\ pc = "classify"
    /\ IF ~IsStr(command)
       THEN /\ envelope' = handle_exception(AttrErrorMsg).envelope
            /\ escaped' = handle_exception(AttrErrorMsg).escaped
            /\ pc' = "returned"
            /\ UNCHANGED <<action, prompt>>
       ELSE IF is_fast_path(command.s)
       THEN /\ action' = ShellAction(command)
            /\ pc' = "execute"
            /\ UNCHANGED <<envelope, escaped, prompt>>
       ELSE /\ prompt' = create_system_prompt(command)
            /\ pc' = "generate"
            /\ UNCHANGED <<envelope, escaped, action>>
    /\ UNCHANGED <<threads, fibVars, agentVars, clientVars, command, result, calls, submitted, spawns, proc,
                   llm_response, generate_calls, transport, http_log>>

\* agent.py:107
Parse ==
    /\ agent = "ready"
    /\ pc = "generated"
    /\ action' = parse_llm_response(llm_response)
    /\ pc' = "execute"
    /\ UNCHANGED <<threads, fibVars, agentVars, clientVars, command, result, envelope, escaped, calls,
                   submitted, spawns, proc, genVars>>

\* A variant of needs_spawn that tests the command as it is given.
needs_spawn_unstripped(a) ==
    /\ a.type = "shell_command"
    /\ a.command.s # <<>>

\* _execute_action reaches subprocess.Popen: a shell action whose stripped command is not empty
needs_spawn(a) ==
    /\ a.type = "shell_command"
    /\ Strip(a.command.s) # <<>>

\* A variant of execute_action that wraps the reason of an error action as output.
execute_action_error_as_output(a) ==
    IF a.type = "shell_command"
    THEN MkResult("absent", Absent, Absent, Absent, Absent, PyStr(EmptyCommandMsg))
    ELSE IF a.type = "response"
    THEN MkResult("absent", Absent, Absent, Absent, a.content, Absent)
    ELSE MkResult("absent", Absent, Absent, Absent, a.error, Absent)

\* _execute_action on the paths that spawn nothing
execute_action(a) ==
    IF a.type = "shell_command"
    THEN MkResult("absent", Absent, Absent, Absent, Absent, PyStr(EmptyCommandMsg))
    ELSE IF a.type = "response"
    THEN MkResult("absent", Absent, Absent, Absent, a.content, Absent)
    ELSE IF a.type = "error"
    THEN MkResult("absent", Absent, Absent, Absent, Absent, a.error)
    ELSE MkResult("absent", Absent, Absent, Absent, Absent,
                  PyStr(UnknownActionMsg \o UnknownTypeName))

\* agent.py:258-274: communicate returned within the timeout
completed_result(return_code, stdout, stderr) ==
    MkResult(IF return_code # 0 THEN "error" ELSE "success",
             PyStr(stdout), PyStr(stderr), PyInt(return_code), Absent, Absent)

\* A variant of timeout_result that hands back what was read before the timeout.
timeout_result_partial ==
    MkResult("error", PyStr(OutText), PyStr(<<>>), Absent, Absent, PyStr(TimedOutMsg))

\* agent.py:276-283
timeout_result ==
    MkResult("error", Absent, Absent, Absent, Absent, PyStr(TimedOutMsg))

\* agent.py:285-290
spawn_failure_result(msg) ==
    MkResult("error", Absent, Absent, Absent, Absent, PyStr(ExecFailedMsg \o msg))

\* an action that spawns nothing is executed and process_command returns
ExecuteAction ==
    /\ pc = "execute"
    /\ ~needs_spawn(action)
    /\ result' = execute_action(action)
    /\ envelope' = success_envelope(action, execute_action(action))
    /\ pc' = "returned"
    /\ UNCHANGED <<threads, fibVars, agentVars, clientVars, command, action, escaped, calls, submitted,
                   spawns, proc, genVars>>

\* subprocess.Popen: the shell is spawned, and runs the command in a child or in its
\* own process; or Popen raises and process_command returns
Popen(spawned, forks) ==
    /\ pc = "execute"
    /\ needs_spawn(action)
    /\ IF spawned
       THEN /\ spawns' = spawns + 1
            /\ proc' = MkProc("running", IF forks THEN "running" ELSE "none")
            /\ pc' = "communicate"
            /\ UNCHANGED <<result, envelope>>
       ELSE /\ result' = spawn_failure_result(SpawnErrorMsg)
            /\ envelope' = success_envelope(action, spawn_failure_result(SpawnErrorMsg))
            /\ pc' = "returned"
            /\ ~forks
            /\ UNCHANGED <<spawns, proc>>
    /\ UNCHANGED <<threads, fibVars, agentVars, clientVars, command, action, escaped, calls, submitted, genVars>>

\* communicate read both pipes to their end and waited for the shell
after_exit(p) ==
    MkProc("reaped", IF p.child = "running" THEN "exited" ELSE p.child)

\* agent.py:278: process.kill() signals the shell only and nothing waits for it; the
\* Popen object is dropped on return, which reaps the shell if it is dead by then
after_kill(p, reaped) ==
    MkProc(IF reaped THEN "killed_reaped" ELSE "killed", p.child)

\* communicate(timeout=30) returns: the process exited and was reaped
Communicate(return_code, stdout, stderr) ==
    /\ pc = "communicate"
    /\ proc' = after_exit(proc)
    /\ result' = completed_result(return_code, stdout, stderr)
    /\ envelope' = success_envelope(action, completed_result(return_code, stdout, stderr))
    /\ pc' = "returned"
    /\ UNCHANGED <<threads, fibVars, agentVars, clientVars, command, action, escaped, calls, submitted,
                   spawns, genVars>>

\* communicate raises another exception than TimeoutExpired after the shell exited
\* and was waited for (text=True: output that is no UTF-8 does not decode); the outer
\* except clause makes the result
CommunicateRaises ==
    /\ pc = "communicate"
    /\ proc' = after_exit(proc)
    /\ result' = spawn_failure_result(DecodeOutputMsg)
    /\ envelope' = success_envelope(action, spawn_failure_result(DecodeOutputMsg))
    /\ pc' = "returned"
    /\ UNCHANGED <<threads, fibVars, agentVars, clientVars, command, action, escaped, calls, submitted,
                   spawns, genVars>>

\* A variant of after_timeout that waits on the killed process again.
after_timeout_wait == "communicate"

\* agent.py:276-283: the except clause kills the process and returns the result;
\* it does not call communicate or wait again
after_timeout == "returned"

\* communicate raises TimeoutExpired: the shell is sent SIGKILL and is not waited for
CommunicateTimeout(reaped) ==
    /\ pc = "communicate"
    /\ proc' = after_kill(proc, reaped)
    /\ result' = timeout_result
    /\ envelope' = success_envelope(action, timeout_result)
    /\ pc' = after_timeout
    /\ UNCHANGED <<threads, fibVars, agentVars, clientVars, command, action, escaped, calls, submitted,
                   spawns, genVars>>

(***************************************************************************)
(* The specifications.                                                     *)
(***************************************************************************)
Init ==
    /\ agent = "none"
    /\ client = "none"
    /\ ctor_error = Absent
    /\ cfg = NoConfig
    /\ llm = NoClient
    /\ command_history = <<>>
    /\ running = FALSE
    /\ pc = "idle"
    /\ command = Absent
    /\ prompt = Absent
    /\ llm_response = Absent
    /\ action = NoAction
    /\ result = NoResult
    /\ envelope = NoEnvelope
    /\ escaped = FALSE
    /\ calls = 0
    /\ submitted = <<>>
    /\ generate_calls = 0
    /\ transport = "none"
    /\ http_log = <<>>
    /\ spawns = 0
    /\ proc = NoProc
    /\ threads = NoThreads
    /\ memo = NoMemo
    /\ fib = NoFib

\* The dispatcher: an Agent is constructed and process_command is called on it.
Next ==
    \/ \E c \in AgentConfigs, e \in BOOLEAN : AgentConstruct(c, e)
    \/ Start
    \/ Stop
    \/ \E cmd \in Commands : ProcessCommandCall(cmd)
    \/ Classify
    \/ Generate
    \/ \E o \in AgentHttpOutcomes : OllamaCompletion(o)
    \/ \E o \in AgentHttpOutcomes : OllamaChat(o)
    \/ \E o \in AgentHttpOutcomes : ApiPost(o)
    \/ Parse
    \/ ExecuteAction
    \/ \E s, f \in BOOLEAN : Popen(s, f)
    \/ \E x \in Exits : Communicate(x.return_code, x.stdout, x.stderr)
    \/ CommunicateRaises
    \/ \E r \in BOOLEAN : CommunicateTimeout(r)

Spec == Init /\ [][Next]_vars

\* agent.py:107: _parse_llm_response returns, whatever the action it returns
ParseReturns ==
    /\ agent = "ready"
    /\ pc = "generated"
    /\ pc' = "execute"
    /\ UNCHANGED <<threads, fibVars, agentVars, clientVars, command, result, envelope, escaped, calls,
                   submitted, spawns, proc, genVars>>

\* A step of the process_command call in progress.
CallStep ==
    \/ Classify
    \/ Generate
    \/ \E o \in AgentHttpOutcomes : OllamaCompletion(o)
    \/ \E o \in AgentHttpOutcomes : OllamaChat(o)
    \/ \E o \in AgentHttpOutcomes : ApiPost(o)
    \/ ParseReturns
    \/ ExecuteAction
    \/ \E s, f \in BOOLEAN : Popen(s, f)
    \/ \E x \in Exits : Communicate(x.return_code, x.stdout, x.stderr)
    \/ CommunicateRaises
    \/ \E r \in BOOLEAN : CommunicateTimeout(r)

\* The dispatcher under the scheduling the code relies on: the thread inside
\* process_command keeps running, every HTTP request answers or hits its timeout
\* (llm.py:164, 189, 266) and every subprocess exits or hits the timeout of
\* communicate (agent.py:258), so a call in progress always takes its next step.
\* Nothing forces a caller to start a call, or to call start or stop.
\* every variable but `action`, which ParseReturns leaves open
progressVars ==
    <<threads, fibVars, agentVars, clientVars, pc, command, result, envelope, escaped, calls,
      submitted, spawns, proc, genVars>>

\* the calls one caller makes in the fair specification
MaxLiveCalls == 1

NextLive ==
    \/ \E c \in AgentConfigs, e \in BOOLEAN : AgentConstruct(c, e)
    \/ Start
    \/ Stop
    \/ \E cmd \in Commands : calls < MaxLiveCalls /\ ProcessCommandCall(cmd)
    \/ Classify
    \/ Generate
    \/ \E o \in AgentHttpOutcomes : OllamaCompletion(o)
    \/ \E o \in AgentHttpOutcomes : OllamaChat(o)
    \/ \E o \in AgentHttpOutcomes : ApiPost(o)
    \/ Parse
    \/ ExecuteAction
    \/ \E s, f \in BOOLEAN : Popen(s, f)
    \/ \E x \in Exits : Communicate(x.return_code, x.stdout, x.stderr)
    \/ CommunicateRaises
    \/ \E r \in BOOLEAN : CommunicateTimeout(r)

SpecLive == Init /\ [][NextLive]_vars /\ WF_progressVars(CallStep)

\* The client on its own: a QwenModel is constructed and generate is called on it.
NextClient ==
    \/ \E c \in Configs, e \in BOOLEAN : ClientConstruct(c, e)
    \/ \E p \in Prompts : ClientCall(p)
    \/ Generate
    \/ \E o \in HttpOutcomes : OllamaCompletion(o)
    \/ \E o \in HttpOutcomes : OllamaChat(o)
    \/ \E o \in HttpOutcomes : ApiPost(o)
    \/ ClientReturn

SpecClient == Init /\ [][NextClient]_vars

(***************************************************************************)
(* The parser on its own: process_command has obtained a reply from the    *)
(* model and goes on to parse it and to execute the action.                *)
(***************************************************************************)
\* the length of the command texts put into the shell block
MaxCmdLen == 3

\* the characters of those command texts
CmdAlphabet == {"l", "s", " ", "\t"}

\* every text over the alphabet of at most MaxCmdLen characters
TextsOver(alphabet, n) == UNION {[1..k -> alphabet] : k \in 0..n}

\* the single-line command texts that are not blank
CommandTexts == {c \in TextsOver(CmdAlphabet, MaxCmdLen) : Strip(c) # <<>>}

ShellBlocks == {ShellBlockUpper, ShellBlockLower, ShellBlockMixed}

\* what follows the COMMAND line: nothing, or further lines
Trailers == {<<>>, TrailerLine, TrailerBlock}

ShellReplies == {h \o c \o t : h \in ShellBlocks, c \in CommandTexts, t \in Trailers}

\* replies that hold no protocol block
PlainReplies ==
    {ReplyPlain, ReplyNoTag, ReplyActionAlone, ReplyWrongField, ReplySameLine,
     ReplyUnknownKind, ReplyFieldFirst}
    \cup TextsOver({"a", " ", "\n"}, MaxCmdLen)

\* replies that hold more than one well-formed block, in every order
Blocks == <<ReplyShell, ReplyRespond, ReplyError>>
BlockSeparators == {<<"\n">>, <<"\n", "\n">>}
BlockOrders ==
    {o \in UNION {[1..k -> 1..3] : k \in 2..3} :
        \A i, j \in DOMAIN o : i # j => o[i] # o[j]}

RECURSIVE JoinBlocks(_, _)
JoinBlocks(o, sep) ==
    IF Len(o) = 1 THEN Blocks[o[1]]
    ELSE Blocks[o[1]] \o sep \o JoinBlocks(Tail(o), sep)

MultiBlockReplies == {JoinBlocks(o, sep) : o \in BlockOrders, sep \in BlockSeparators}

ParserInputs == ShellReplies \cup PlainReplies \cup ReplyTexts \cup MultiBlockReplies

\* process_command(CmdQuestion) on an Agent in ollama mode, at agent.py:106: the
\* completion endpoint has answered 200 with the reply in `response`
InitParser ==
    \E reply \in ParserInputs :
        /\ agent = "ready"
        /\ client = "ready"
        /\ ctor_error = Absent
        /\ cfg = MkConfig(PyNone, PyNone, PyStr(OllamaUrl))
        /\ llm = QwenModel_init(MkConfig(PyNone, PyNone, PyStr(OllamaUrl)), FALSE).llm
        /\ command_history = <<PyStr(CmdQuestion)>>
        /\ running = FALSE
        /\ pc = "generated"
        /\ command = PyStr(CmdQuestion)
        /\ prompt = create_system_prompt(PyStr(CmdQuestion))
        /\ llm_response = PyStr(reply)
        /\ action = NoAction
        /\ result = NoResult
        /\ envelope = NoEnvelope
        /\ escaped = FALSE
        /\ calls = 1
        /\ submitted = <<PyStr(CmdQuestion)>>
        /\ generate_calls = 1
        /\ transport = "ollama"
        /\ http_log = <<Request("POST /api/completion",
                                MkOutcome("response", "none", <<>>, HTTP_OK,
                                          MkBody("object", "none", PyStr(reply), "absent", Absent)))>>
        /\ spawns = 0
        /\ proc = NoProc
        /\ threads = NoThreads
        /\ memo = NoMemo
        /\ fib = NoFib

NextParser ==
    \/ Parse
    \/ ExecuteAction
    \/ \E s, f \in BOOLEAN : Popen(s, f)
    \/ \E x \in Exits : Communicate(x.return_code, x.stdout, x.stderr)
    \/ CommunicateRaises
    \/ \E r \in BOOLEAN : CommunicateTimeout(r)

SpecParser == InitParser /\ [][NextParser]_vars

(***************************************************************************)
(* The executor on its own: _execute_action is entered with an action, on  *)
(* an Agent in direct mode that has processed no command; the result is    *)
(* wrapped as process_command wraps it.                                    *)
(***************************************************************************)
ExecutorInputs ==
    {ShellAction(PyStr(c)) : c \in TextsOver(CmdAlphabet, MaxCmdLen)}
    \cup {ShellAction(Absent),
          ResponseAction(PyStr(ReplyPlain)), ResponseAction(PyStr(<<>>)),
          ErrorAction(PyStr(ReplyPlain))}

InitExecutor ==
    \E a \in ExecutorInputs :
        /\ agent = "ready"
        /\ client = "ready"
        /\ ctor_error = Absent
        /\ cfg = MkConfig(PyStr(ModelPath), PyNone, PyNone)
        /\ llm = QwenModel_init(MkConfig(PyStr(ModelPath), PyNone, PyNone), FALSE).llm
        /\ command_history = <<>>
        /\ running = FALSE
        /\ pc = "execute"
        /\ command = Absent
        /\ prompt = Absent
        /\ llm_response = Absent
        /\ action = a
        /\ result = NoResult
        /\ envelope = NoEnvelope
        /\ escaped = FALSE
        /\ calls = 0
        /\ submitted = <<>>
        /\ generate_calls = 0
        /\ transport = "none"
        /\ http_log = <<>>
        /\ spawns = 0
        /\ proc = NoProc
        /\ threads = NoThreads
        /\ memo = NoMemo
        /\ fib = NoFib

NextExecutor ==
    \/ ExecuteAction
    \/ \E s, f \in BOOLEAN : Popen(s, f)
    \/ \E x \in Exits : Communicate(x.return_code, x.stdout, x.stderr)
    \/ CommunicateRaises
    \/ \E r \in BOOLEAN : CommunicateTimeout(r)

SpecExecutor == InitExecutor /\ [][NextExecutor]_vars

(***************************************************************************)
(* Concurrent calls: each thread calls process_command once on one Agent.  *)
(* Only command_history is shared; the rest of a call works on locals.     *)
(***************************************************************************)
ThreadCommands == {PyStr(CmdLs), PyStr(CmdQuestion), PyNone}

\* A variant of list_append that appends to the content the thread saw and stores that.
list_append_copy(current, seen, x) == Append(seen, x)

\* agent.py:85: list.append acts on the list object itself, in one step of the
\* interpreter, whatever the list held when the attribute was evaluated
list_append(current, seen, x) == Append(current, x)

\* process_command is entered and self.command_history is evaluated
ThreadCall(t, cmd) ==
    /\ agent = "ready"
    /\ threads[t].pc = "idle"
    /\ threads' = [threads EXCEPT ![t] = MkThread("called", cmd, command_history)]
    /\ calls' = calls + 1
    /\ submitted' = Append(submitted, cmd)
    /\ UNCHANGED <<fibVars, agentVars, clientVars, pc, command, action, result, envelope, escaped,
                   spawns, proc, genVars>>

\* the call of append
ThreadAppend(t) ==
    /\ threads[t].pc = "called"
    /\ command_history' = list_append(command_history, threads[t].seen, threads[t].command)
    /\ threads' = [threads EXCEPT ![t].pc = "appended"]
    /\ UNCHANGED <<fibVars, agent, running, clientVars, pc, callVars, genVars>>

\* agent.py:87-125: the rest of the call, on the thread's locals
ThreadReturn(t) ==
    /\ threads[t].pc = "appended"
    /\ threads' = [threads EXCEPT ![t].pc = "returned"]
    /\ UNCHANGED <<fibVars, agentVars, clientVars, pc, callVars, genVars>>

InitConcurrent ==
    /\ agent = "ready"
    /\ client = "ready"
    /\ ctor_error = Absent
    /\ cfg = MkConfig(PyStr(ModelPath), PyNone, PyNone)
    /\ llm = QwenModel_init(MkConfig(PyStr(ModelPath), PyNone, PyNone), FALSE).llm
    /\ command_history = <<>>
    /\ running = FALSE
    /\ pc = "idle"
    /\ command = Absent
    /\ prompt = Absent
    /\ llm_response = Absent
    /\ action = NoAction
    /\ result = NoResult
    /\ envelope = NoEnvelope
    /\ escaped = FALSE
    /\ calls = 0
    /\ submitted = <<>>
    /\ generate_calls = 0
    /\ transport = "none"
    /\ http_log = <<>>
    /\ spawns = 0
    /\ proc = NoProc
    /\ threads = NoThreads
    /\ memo = NoMemo
    /\ fib = NoFib

NextConcurrent ==
    \/ \E t \in Threads, cmd \in ThreadCommands : ThreadCall(t, cmd)
    \/ \E t \in Threads : ThreadAppend(t)
    \/ \E t \in Threads : ThreadReturn(t)

SpecConcurrent == InitConcurrent /\ [][NextConcurrent]_vars

(***************************************************************************)
(* fib.py: three implementations of the Fibonacci numbers.                 *)
(***************************************************************************)
\* the largest argument the functions are called with
MaxFib == 12

\* memo[n] = v on the dict
MemoPut(m, n, v) == [k \in (DOMAIN m) \cup {n} |-> IF k = n THEN v ELSE m[k]]

\* fibonacci_memo(n, memo): the value returned and the dict as the call leaves it;
\* the call on n - 1 runs first and the call on n - 2 sees what it stored
RECURSIVE fibonacci_memo(_, _)
fibonacci_memo(n, m) ==
    IF n \in DOMAIN m THEN [value |-> m[n], memo |-> m]
    ELSE IF n <= 1 THEN [value |-> n, memo |-> m]
    ELSE LET first == fibonacci_memo(n - 1, m)
             second == fibonacci_memo(n - 2, first.memo)
             v == first.value + second.value
         IN  [value |-> v, memo |-> MemoPut(second.memo, n, v)]

\* fib.py:30-32: for _ in range(2, n+1): a, b = b, a + b, entered at step i, then return b
RECURSIVE iterate(_, _, _, _)
iterate(a, b, i, n) ==
    IF i > n THEN b ELSE iterate(b, a + b, i + 1, n)

\* A variant of fibonacci_iterative whose loop stops one step early.
fibonacci_iterative_short(n) ==
    IF n <= 1 THEN n ELSE iterate(0, 1, 3, n)

fibonacci_iterative(n) ==
    IF n <= 1 THEN n ELSE iterate(0, 1, 2, n)

\* fib.py:39-44, on matrices <<<<a, b>>, <<c, d>>>>
matrix_multiply(A, B) ==
    <<<<A[1][1] * B[1][1] + A[1][2] * B[2][1], A[1][1] * B[1][2] + A[1][2] * B[2][2]>>,
      <<A[2][1] * B[1][1] + A[2][2] * B[2][1], A[2][1] * B[1][2] + A[2][2] * B[2][2]>>>>

\* fib.py:46-52
RECURSIVE matrix_power(_, _)
matrix_power(A, n) ==
    IF n = 1 THEN A
    ELSE IF n % 2 = 0 THEN matrix_power(matrix_multiply(A, A), n \div 2)
    ELSE matrix_multiply(A, matrix_power(matrix_multiply(A, A), (n - 1) \div 2))

\* fib.py:54-57: [0][1] of [[1, 1], [1, 0]] to the n
fibonacci_matrix(n) ==
    IF n = 0 THEN 0
    ELSE matrix_power(<<<<1, 1>>, <<1, 0>>>>, n)[1][2]

MkFib(fn, n, value) == [fn |-> fn, n |-> n, value |-> value]

\* fibonacci_memo(n): the call uses and updates the shared default dict
CallMemo(n) ==
    /\ fib' = MkFib("memo", n, fibonacci_memo(n, memo).value)
    /\ memo' = fibonacci_memo(n, memo).memo
    /\ UNCHANGED <<threads, agentVars, clientVars, pc, callVars, genVars>>

\* fibonacci_iterative(n)
CallIterative(n) ==
    /\ fib' = MkFib("iterative", n, fibonacci_iterative(n))
    /\ UNCHANGED <<threads, memo, agentVars, clientVars, pc, callVars, genVars>>

\* fibonacci_matrix(n)
CallMatrix(n) ==
    /\ fib' = MkFib("matrix", n, fibonacci_matrix(n))
    /\ UNCHANGED <<threads, memo, agentVars, clientVars, pc, callVars, genVars>>

\* The module fib.py once imported: any of its functions is called, in any order.
NextFib ==
    \/ \E n \in 0..MaxFib : CallMemo(n)
    \/ \E n \in 0..MaxFib : CallIterative(n)
    \/ \E n \in 0..MaxFib : CallMatrix(n)

SpecFib == Init /\ [][NextFib]_vars

(***************************************************************************)
(* Vocabulary of the properties.                                           *)
(***************************************************************************)
FastPrefixes == {PrefixLs, PrefixCd, PrefixPwd, PrefixCat, PrefixDate, PrefixEcho}

\* the text starts with one of the fast-path prefixes
HasFastPrefix(s) == \E p \in FastPrefixes : StartsWith(s, p)

\* a process_command call has been classified and is on the path that skips the model
OnFastPath ==
    /\ pc \in {"execute", "communicate", "returned"}
    /\ generate_calls = 0
    /\ transport = "none"
    /\ http_log = <<>>
    /\ action = ShellAction(command)

\* a process_command call has been classified and is on the path through the model
OnModelPath ==
    \/ pc = "generate" /\ prompt # Absent
    \/ pc \in {"completion", "chat", "api_post", "generated", "execute", "communicate", "returned"}
       /\ generate_calls = 1

\* a process_command call on a command that is text has been classified
Classified == agent = "ready" /\ calls > 0 /\ IsStr(command) /\ pc # "classify"

\* a constructor argument is set: neither None nor empty
IsSet(v) == v # PyNone /\ v # PyStr(<<>>)

SetFields(c) == {f \in {"model_path", "api_url", "ollama_url"} : IsSet(c[f])}

\* the mode of the highest-priority field that is set
PriorityMode(c) ==
    IF "ollama_url" \in SetFields(c) THEN "ollama"
    ELSE IF "api_url" \in SetFields(c) THEN "api"
    ELSE "direct"

\* the requests a mode's transport may issue
EndpointsOf(mode) ==
    IF mode = "ollama" THEN {"GET /api/version", "POST /api/completion", "POST /api/chat"}
    ELSE IF mode = "api" THEN {"POST /query"}
    ELSE {}

Constructed == cfg # NoConfig

\* the completion attempt yielded HTTP 200 with a JSON body containing `response`
CompletionYielded(o) ==
    /\ o.kind = "response"
    /\ o.status = 200
    /\ o.body.json = "object"
    /\ o.body.response # Absent

\* the chat attempt yielded HTTP 200 with a JSON body containing `message.content`
ChatYielded(o) ==
    /\ o.kind = "response"
    /\ o.status = 200
    /\ o.body.json = "object"
    /\ o.body.message = "dict"
    /\ o.body.content # Absent

\* the chat attempt ended in an exception: out of the request, out of the decoding of
\* the body, or out of the look-up in a body that is no object
ChatRaised(o) ==
    \/ o.kind = "exception"
    \/ /\ o.status = 200
       /\ \/ o.body.json \in {"invalid", "scalar", "array_key"}
          \/ o.body.json = "object" /\ o.body.message = "null"

\* a generate call in ollama mode has returned after both attempts failed
BothFailed ==
    /\ transport = "ollama"
    /\ pc = "generated"
    /\ Len(http_log) = 2
    /\ ~CompletionYielded(http_log[1].outcome)
    /\ ~ChatYielded(http_log[2].outcome)

\* the status of the last HTTP response of the log, 0 when there was none
LastStatus ==
    LET seen == {i \in 1..Len(http_log) : http_log[i].outcome.kind = "response"}
    IN  IF seen = {} THEN 0 ELSE http_log[MaxOf(seen)].outcome.status

(***************************************************************************)
(* C1.  A command whose raw text starts with a fast-path prefix never      *)
(* reaches the model: generate is not called, no request is sent, and the  *)
(* action executed is {type: shell_command, command: <the raw command>}.   *)
(***************************************************************************)
C1_FastPathSkipsModel ==
    (agent = "ready" /\ calls > 0 /\ IsStr(command) /\ HasFastPrefix(command.s)) =>
        /\ generate_calls = 0
        /\ transport = "none"
        /\ http_log = <<>>
        /\ pc \in {"classify", "execute", "communicate", "returned"}
        /\ pc # "classify" => action = ShellAction(command)
        /\ pc = "returned" => envelope.action = "shell_command"

C1_Witness ==
    /\ pc = "returned"
    /\ command = PyStr(CmdEcho)
    /\ generate_calls = 0
    /\ action = ShellAction(PyStr(CmdEcho))
    /\ result.return_code = PyInt(0)

(***************************************************************************)
(* C2 as stated.  A command that starts with a fast-path prefix once it is *)
(* trimmed takes the fast path.                                            *)
(***************************************************************************)
C2_TrimmedClassification ==
    (Classified /\ HasFastPrefix(Strip(command.s))) => OnFastPath

(***************************************************************************)
(* C2 amended.  Classification is done on the command as given: a command  *)
(* takes the fast path exactly when its untrimmed text starts with a       *)
(* fast-path prefix; with whitespace before the prefix it goes to the      *)
(* model.                                                                  *)
(***************************************************************************)
C2_RawClassification ==
    Classified =>
        /\ HasFastPrefix(command.s) => OnFastPath
        /\ ~HasFastPrefix(command.s) => OnModelPath /\ ~OnFastPath

C2_Witness ==
    /\ pc = "returned"
    /\ command = PyStr(CmdLeadingWs)
    /\ HasFastPrefix(Strip(command.s))
    /\ generate_calls = 1
    /\ action.type = "response"

(***************************************************************************)
(* C3.  The history holds one entry per process_command call made: the     *)
(* raw commands in call order, whatever envelope each call ended with.     *)
(***************************************************************************)
C3_HistoryIsCallLog ==
    agent = "ready" =>
        /\ Len(command_history) = calls
        /\ command_history = submitted

C3_Witness ==
    /\ pc = "returned"
    /\ calls = 2
    /\ command_history = <<PyNone, PyStr(CmdLs)>>
    /\ envelope.status = "success"

(***************************************************************************)
(* C4.  No exception leaves process_command: every call returns an         *)
(* envelope whose status is "success" or "error", and an exception that    *)
(* reaches process_command yields {status: error, error: <message>}.       *)
(***************************************************************************)
C4_NoExceptionEscapes ==
    /\ ~escaped
    /\ pc = "returned" =>
        /\ envelope.status \in {"success", "error"}
        /\ envelope.status = "error" =>
              /\ IsStr(envelope.error)
              /\ envelope.action = "absent"
              /\ envelope.result = NoResult
        /\ ~IsStr(command) =>
              /\ envelope.status = "error"
              /\ envelope.error = PyStr(AttrErrorMsg)

C4_Witness ==
    /\ pc = "returned"
    /\ command = PyNone
    /\ envelope.status = "error"
    /\ envelope.error = PyStr(AttrErrorMsg)

(***************************************************************************)
(* C5.  A client constructed with at least one field set is in exactly one *)
(* mode, that of the highest-priority set field (ollama_url > api_url >    *)
(* model_path), and generate dispatches to that mode's transport only.     *)
(***************************************************************************)
C5_ModePriority ==
    (Constructed /\ SetFields(cfg) # {}) =>
        /\ client = "ready"
        /\ llm.mode = PriorityMode(cfg)
        /\ transport \in {"none", PriorityMode(cfg)}
        /\ \A i \in 1..Len(http_log) : http_log[i].endpoint \in EndpointsOf(PriorityMode(cfg))
        /\ pc = "generated" /\ PriorityMode(cfg) # "direct" => http_log # <<>>

C5_Witness ==
    /\ SetFields(cfg) = {"model_path", "api_url", "ollama_url"}
    /\ llm.mode = "ollama"
    /\ pc = "generated"
    /\ Len(http_log) = 2

(***************************************************************************)
(* C6.  Constructing with none of the three fields set raises the          *)
(* configuration error, Agent construction passes it on, and neither a     *)
(* client nor an Agent results.                                            *)
(***************************************************************************)
C6_NoConfigFails ==
    (Constructed /\ SetFields(cfg) = {}) =>
        /\ client = "failed"
        /\ agent = "failed"
        /\ ctor_error = PyStr(ConfigErrorMsg)
        /\ llm = NoClient
        /\ calls = 0
        /\ pc = "idle"

C6_Witness ==
    /\ cfg = MkConfig(PyStr(<<>>), PyNone, PyStr(<<>>))
    /\ agent = "failed"
    /\ ctor_error = PyStr(ConfigErrorMsg)

C8_GenerateReturnsText ==
    pc = "generated" => IsStr(llm_response)

(***************************************************************************)
(* C9.  In ollama mode the POST to /api/completion comes first; the POST   *)
(* to /api/chat is issued exactly when the completion attempt did not      *)
(* yield HTTP 200 with a JSON body containing `response`, and before any   *)
(* result is returned; a completion that succeeds returns its `response`   *)
(* and /api/chat is not contacted.                                         *)
(***************************************************************************)
C9_FallbackOrder ==
    transport = "ollama" =>
        /\ pc \in {"completion", "chat", "generated", "idle"}
        /\ pc = "completion" => http_log = <<>> /\ llm_response = Absent
        /\ pc = "chat" =>
              /\ Len(http_log) = 1
              /\ http_log[1].endpoint = "POST /api/completion"
              /\ ~CompletionYielded(http_log[1].outcome)
              /\ llm_response = Absent
        /\ pc \in {"generated", "idle"} =>
              /\ Len(http_log) \in {1, 2}
              /\ http_log[1].endpoint = "POST /api/completion"
              /\ Len(http_log) = 2 <=> ~CompletionYielded(http_log[1].outcome)
              /\ Len(http_log) = 2 => http_log[2].endpoint = "POST /api/chat"
              /\ CompletionYielded(http_log[1].outcome) =>
                    llm_response = http_log[1].outcome.body.response

C9_Witness ==
    /\ transport = "ollama"
    /\ pc = "generated"
    /\ Len(http_log) = 2
    /\ http_log[1].outcome.status = 500
    /\ http_log[1].outcome.body.response = PyStr(ReplyPlain)
    /\ http_log[2].endpoint = "POST /api/chat"
    /\ llm_response = PyStr(ReplyShell)

(***************************************************************************)
(* C10 as stated.  In ollama mode, whenever both attempts fail, the text   *)
(* returned embeds the last HTTP status code observed.                     *)
(***************************************************************************)
C10_BothFailEmbedsStatus ==
    (BothFailed /\ LastStatus # 0) =>
        /\ IsStr(llm_response)
        /\ Contains(llm_response.s, IntToStr(LastStatus))

(***************************************************************************)
(* C10 amended.  In ollama mode, whenever both attempts fail and the chat  *)
(* attempt ended with an HTTP response that was examined without an        *)
(* exception, the text returned embeds the status code of that response,   *)
(* the last one observed; when the chat attempt ended in an exception the  *)
(* text returned is an error message made from the text of the exception,  *)
(* not the status message.                                                 *)
(***************************************************************************)
C10_StatusEmbeddedUnlessRaised ==
    BothFailed =>
        /\ IsStr(llm_response)
        /\ ~ChatRaised(http_log[2].outcome) =>
              /\ LastStatus = http_log[2].outcome.status
              /\ llm_response.s = OllamaStatusMsg \o IntToStr(LastStatus)
              /\ Contains(llm_response.s, IntToStr(LastStatus))
        /\ ChatRaised(http_log[2].outcome) =>
              /\ \/ StartsWith(llm_response.s, OllamaCommMsg)
                 \/ StartsWith(llm_response.s, OllamaUnexpectedMsg)
                 \/ llm_response.s = OllamaParseMsg
              /\ ~StartsWith(llm_response.s, OllamaStatusMsg)
              /\ http_log[2].outcome.kind = "exception" =>
                    Contains(llm_response.s, http_log[2].outcome.msg)

C10_Witness ==
    /\ BothFailed
    /\ http_log[1].outcome.status = 500
    /\ http_log[2].outcome.status = 404
    /\ Contains(llm_response.s, IntToStr(404))

(***************************************************************************)
(* C11 as stated.  In API mode generate returns the body's `response` only *)
(* when the status is exactly 200 and the JSON body contains `response`;   *)
(* every other status, a missing field, a network failure or a timeout     *)
(* yields an error text and never the body's content.                      *)
(***************************************************************************)
\* the texts _generate_via_api returns for a failure
IsApiErrorText(v) ==
    /\ IsStr(v)
    /\ \/ v.s = ApiFormatMsg
       \/ v.s = ApiParseMsg
       \/ StartsWith(v.s, ApiCommMsg)
       \/ StartsWith(v.s, ApiUnexpectedMsg)

\* a generate call in API mode has returned
ApiReturned ==
    /\ transport = "api"
    /\ pc = "generated"
    /\ Len(http_log) = 1

\* the response carries a JSON object with a `response` member
BodyHasResponse(o) ==
    /\ o.kind = "response"
    /\ o.body.json = "object"
    /\ o.body.response # Absent

C11_ApiSuccessOnly200 ==
    ApiReturned =>
        LET o == http_log[1].outcome
        IN  IF BodyHasResponse(o) /\ o.status = 200
            THEN llm_response = o.body.response
            ELSE IsApiErrorText(llm_response)

(***************************************************************************)
(* C11 amended.  In API mode generate returns the body's `response` when   *)
(* the status is below 400 (200, and also any other 2xx or 3xx status that *)
(* reaches the client) and the JSON body contains `response`; a status of  *)
(* 400 or more, a missing field, a body that is no JSON object, a network  *)
(* failure or a timeout yields an error text and never the body's content. *)
(***************************************************************************)
C11_ApiSuccessBelow400 ==
    ApiReturned =>
        LET o == http_log[1].outcome
        IN  IF BodyHasResponse(o) /\ o.status < 400
            THEN llm_response = o.body.response
            ELSE IsApiErrorText(llm_response)

C11_Witness ==
    /\ ApiReturned
    /\ http_log[1].outcome.status = 201
    /\ http_log[1].outcome.body.response = PyStr(ReplyPlain)
    /\ llm_response = PyStr(ReplyPlain)

(***************************************************************************)
(* C12.  No retries: a process_command call invokes generate at most once; *)
(* a generate call issues no request in direct mode, at most one POST      *)
(* /query in API mode, and in ollama mode one POST /api/completion then at *)
(* most one POST /api/chat, never the same endpoint twice.                 *)
(***************************************************************************)
\* the endpoints of the requests logged so far, in order
Endpoints == [i \in 1..Len(http_log) |-> http_log[i].endpoint]

\* a call is in progress or has returned (the log then holds that call's requests only)
InCall == agent = "ready" /\ calls > 0

C12_NoRetries ==
    InCall =>
        /\ generate_calls <= 1
        /\ generate_calls = 0 => Endpoints = <<>>
        /\ transport = "direct" => Endpoints = <<>>
        /\ transport = "api" => Endpoints \in {<<>>, <<"POST /query">>}
        /\ transport = "ollama" =>
              Endpoints \in {<<>>, <<"POST /api/completion">>,
                             <<"POST /api/completion", "POST /api/chat">>}
        /\ \A i, j \in 1..Len(http_log) : i # j => http_log[i].endpoint # http_log[j].endpoint

C12_Witness ==
    /\ InCall
    /\ pc = "returned"
    /\ generate_calls = 1
    /\ Endpoints = <<"POST /api/completion", "POST /api/chat">>
    /\ http_log[1].outcome.kind = "exception"
    /\ http_log[2].outcome.kind = "exception"

(***************************************************************************)
(* C13.  A reply that holds no well-formed protocol block (no ACTION: tag, *)
(* or an ACTION tag that no line with its matching field follows) is       *)
(* parsed to {type: response, content: <the reply>}, the text unchanged    *)
(* character for character.                                                *)
(***************************************************************************)
\* the literal occurs in the text, in any letter case
Occurrences(s, lit) == {i \in 1..Len(s) : MatchCI(s, i, lit)}

\* after an ACTION: tag and the kind, a line of the text starts with the field tag
FieldLineFollows(s, kind, field) ==
    \E i \in Occurrences(s, TagAction), k \in Occurrences(s, kind),
       j \in Occurrences(s, field) :
        i < k /\ k < j /\ s[j - 1] = "\n"

HoldsNoBlock(s) ==
    /\ ~FieldLineFollows(s, TagShell, TagCommand)
    /\ ~FieldLineFollows(s, TagRespond, TagContent)
    /\ ~FieldLineFollows(s, TagError, TagReason)

\* the reply of the call in progress has been parsed
Parsed == pc \in {"execute", "communicate", "returned"} /\ generate_calls = 1

C13_PlainTextVerbatim ==
    (Parsed /\ IsStr(llm_response) /\ HoldsNoBlock(llm_response.s)) =>
        /\ action = ResponseAction(llm_response)
        /\ action.content.s = llm_response.s
        /\ pc = "returned" => result.output = llm_response

C13_Witness ==
    /\ pc = "returned"
    /\ llm_response = PyStr(ReplyWrongField)
    /\ Occurrences(llm_response.s, TagAction) # {}
    /\ Strip(llm_response.s) # llm_response.s
    /\ action = ResponseAction(PyStr(ReplyWrongField))

(***************************************************************************)
(* C14.  Round trip of the shell block: for every single-line command text *)
(* c that is not blank and any letter case of the tags, the reply          *)
(* "ACTION: shell\nCOMMAND: c", with or without further lines after it, is *)
(* parsed to {type: shell_command, command: c stripped of surrounding      *)
(* whitespace}; no text of a later line enters the command.                *)
(***************************************************************************)
\* the text between the block h and the continuation t of the reply s, where s is
\* h, then a text, then t
Between(s, h, t) == SubSeq(s, Len(h) + 1, Len(s) - Len(t))

\* the reply s is "ACTION: shell\nCOMMAND: c" in the letter case of h, followed by t
IsShellReply(s, h, t) ==
    /\ Len(s) > Len(h) + Len(t)
    /\ SubSeq(s, 1, Len(h)) = h
    /\ SubSeq(s, Len(s) - Len(t) + 1, Len(s)) = t
    /\ Between(s, h, t) \in CommandTexts

C14_ShellRoundTrip ==
    \A h \in ShellBlocks, t \in Trailers :
        (Parsed /\ IsStr(llm_response) /\ IsShellReply(llm_response.s, h, t)) =>
            /\ action = ShellAction(PyStr(Strip(Between(llm_response.s, h, t))))
            /\ action.command.s # <<>>
            /\ ~Contains(action.command.s, <<"\n">>)
            /\ ~Contains(action.command.s, <<"x">>)

C14_Witness ==
    /\ Parsed
    /\ llm_response = PyStr(ShellBlockMixed \o <<" ", "l", "s">> \o TrailerLine)
    /\ action = ShellAction(PyStr(<<"l", "s">>))

(***************************************************************************)
(* C15.  A shell action whose command is empty or only whitespace (and so  *)
(* _execute_shell_command with an empty command) yields                    *)
(* {error: "Empty command"} and spawns no subprocess.                      *)
(***************************************************************************)
\* the action being executed is a shell action whose command is blank
BlankShellAction == action.type = "shell_command" /\ Strip(action.command.s) = <<>>

C15_EmptyCommandNoSpawn ==
    BlankShellAction =>
        /\ pc \in {"execute", "returned"}
        /\ spawns = 0
        /\ proc = NoProc
        /\ pc = "returned" =>
              result = MkResult("absent", Absent, Absent, Absent, Absent, PyStr(EmptyCommandMsg))

C15_Witness ==
    /\ pc = "returned"
    /\ action = ShellAction(PyStr(<<" ", "\t">>))
    /\ result.error = PyStr(EmptyCommandMsg)
    /\ spawns = 0

(***************************************************************************)
(* C16 as stated.  When a spawned shell command completes within the       *)
(* timeout, the result holds stdout, stderr and return_code, and its       *)
(* status is "success" exactly when return_code is 0.                      *)
(***************************************************************************)
\* _execute_shell_command has returned after its subprocess exited by itself
CompletedInTime == pc = "returned" /\ spawns = 1 /\ proc.shell = "reaped"

C16_CompletedHasOutput ==
    CompletedInTime =>
        /\ IsStr(result.stdout)
        /\ IsStr(result.stderr)
        /\ result.return_code.t = "int"
        /\ result.status \in {"success", "error"}
        /\ result.status = "success" <=> result.return_code = PyInt(0)

(***************************************************************************)
(* C17.  _execute_shell_command never raises: a command that exceeds the   *)
(* timeout yields {status: error, error: <text containing "timed out">}    *)
(* without stdout, stderr or return_code, and a failure to spawn yields    *)
(* {status: error, error: <message>}.                                      *)
(***************************************************************************)
\* _execute_shell_command has returned after communicate ran into the timeout
TimedOut == pc = "returned" /\ spawns = 1 /\ proc.shell \in {"killed", "killed_reaped"}

\* _execute_shell_command has returned after Popen raised
SpawnFailed == pc = "returned" /\ needs_spawn(action) /\ spawns = 0

C17_TimeoutAndSpawnErrorsReported ==
    /\ ~escaped
    /\ (pc = "returned" /\ needs_spawn(action)) =>
          /\ result # NoResult
          /\ result.status \in {"success", "error"}
    /\ TimedOut =>
          /\ result.status = "error"
          /\ IsStr(result.error)
          /\ Contains(result.error.s, <<"t", "i", "m", "e", "d", " ", "o", "u", "t">>)
          /\ result.stdout = Absent
          /\ result.stderr = Absent
          /\ result.return_code = Absent
          /\ result.output = Absent
    /\ SpawnFailed =>
          /\ result.status = "error"
          /\ IsStr(result.error)
          /\ result.error.s = ExecFailedMsg \o SpawnErrorMsg
          /\ proc = NoProc

C17_Witness ==
    /\ TimedOut
    /\ action.command = PyStr(<<"l", "s">>)
    /\ result = MkResult("error", Absent, Absent, Absent, Absent, PyStr(TimedOutMsg))

(***************************************************************************)
(* C18 as stated.  After _execute_shell_command returns from a command     *)
(* that timed out, no process spawned for the command remains: none still  *)
(* running (the shell or a child it started) and none as a zombie that was *)
(* not waited for.                                                         *)
(***************************************************************************)
C18_NoProcessLeftAfterTimeout ==
    TimedOut =>
        /\ proc.shell \notin {"running", "killed"}
        /\ proc.child # "running"

(***************************************************************************)
(* C19.  Concurrent appends are neither lost nor corrupted: for every      *)
(* interleaving of the threads' process_command calls, once all have       *)
(* returned the history has one entry per call and holds each submitted    *)
(* command exactly as often as it was submitted, as a whole value.         *)
(***************************************************************************)
\* the threads whose append has been done
Appended == {t \in Threads : threads[t].pc \in {"appended", "returned"}}

AllReturned == \A t \in Threads : threads[t].pc = "returned"

\* how often the value occurs in the history
CountIn(history, x) == Cardinality({i \in 1..Len(history) : history[i] = x})

C19_ConcurrentAppendsKept ==
    /\ Len(command_history) = Cardinality(Appended)
    /\ \A x \in ThreadCommands :
          CountIn(command_history, x) = Cardinality({t \in Appended : threads[t].command = x})
    /\ \A i \in 1..Len(command_history) : command_history[i] \in ThreadCommands
    /\ AllReturned => Len(command_history) = MaxThreads

C19_Witness ==
    /\ AllReturned
    /\ \A t \in Threads : threads[t].seen = <<>>
    /\ Len(command_history) = MaxThreads

(***************************************************************************)
(* C20.  Whenever process_command completes without an exception of its    *)
(* own, the envelope is {status: "success", action: <the action's type>,   *)
(* result: <the execution result>}, also when the result reports a failure *)
(* (non-zero exit code, timeout, spawn failure, empty command) or the      *)
(* action is an error action; the status "error" occurs only for an        *)
(* exception that process_command caught.                                  *)
(***************************************************************************)
\* the call in progress has returned
Returned == InCall /\ pc = "returned"

\* the result reports a failure of the execution
InnerFailure == result.status = "error" \/ result.error # Absent \/ action.type = "error"

C20_OuterStatusSuccess ==
    Returned =>
        /\ IsStr(command) =>
              /\ envelope = MkEnvelope("success", action.type, result, Absent)
              /\ action.type \in {"shell_command", "response", "error"}
              /\ result # NoResult
        /\ envelope.status = "error" <=> ~IsStr(command)
        /\ envelope.status = "error" =>
              /\ envelope.action = "absent"
              /\ envelope.result = NoResult
              /\ IsStr(envelope.error)

C20_Witness ==
    /\ Returned
    /\ InnerFailure
    /\ result = timeout_result
    /\ envelope = MkEnvelope("success", "shell_command", timeout_result, Absent)

(***************************************************************************)
(* C21.  A response action yields exactly {output: content} and an error   *)
(* action exactly {error: reason}, and neither spawns a subprocess; a      *)
(* subprocess is spawned only for a shell_command action whose stripped    *)
(* command is not empty, and at most one per process_command call.         *)
(***************************************************************************)
C21_ActionExecutionMapping ==
    InCall =>
        /\ spawns <= 1
        /\ spawns = 1 => action.type = "shell_command" /\ Strip(action.command.s) # <<>>
        /\ proc # NoProc => spawns = 1
        /\ (pc = "returned" /\ action.type = "response") =>
              /\ result = MkResult("absent", Absent, Absent, Absent, action.content, Absent)
              /\ spawns = 0
        /\ (pc = "returned" /\ action.type = "error") =>
              /\ result = MkResult("absent", Absent, Absent, Absent, Absent, action.error)
              /\ spawns = 0

C21_Witness ==
    /\ InCall
    /\ pc = "returned"
    /\ action = ErrorAction(PyStr(Strip(GroupToNewline(ReplyError, HeaderEnd(ReplyError, 1, TagError, TagReason)))))
    /\ result.error = action.error
    /\ result.output = Absent
    /\ spawns = 0

(***************************************************************************)
(* C22.  When a reply holds more than one well-formed block, the action is *)
(* the shell block if one is present, otherwise the respond block,         *)
(* otherwise the error block, whatever the order of the blocks in the      *)
(* reply.                                                                  *)
(***************************************************************************)
HasBlock(o, k) == \E i \in DOMAIN o : o[i] = k

PrecedenceAction(o) ==
    IF HasBlock(o, 1) THEN ShellAction(PyStr(<<"l", "s", " ", "-", "l", "a">>))
    ELSE IF HasBlock(o, 2) THEN ResponseAction(PyStr(<<"h", "e", "l", "l", "o">>))
    ELSE ErrorAction(PyStr(<<"b", "a", "d">>))

C22_ParserPrecedence ==
    \A o \in BlockOrders, sep \in BlockSeparators :
        (Parsed /\ llm_response = PyStr(JoinBlocks(o, sep))) =>
            action = PrecedenceAction(o)

\* a reply with the error block first, the respond block second and the
\* shell block last was parsed as the shell block
C22_Witness ==
    /\ Parsed
    /\ llm_response = PyStr(JoinBlocks(<<3, 2, 1>>, <<"\n">>))
    /\ action.type = "shell_command"
    /\ pc = "returned"

(***************************************************************************)
(* C23.  Every action that reaches _execute_action from process_command    *)
(* has a type in {shell_command, response, error} and carries the payload  *)
(* field of exactly that variant, so the result never reports an unknown   *)
(* action type.                                                            *)
(***************************************************************************)
PayloadFields(a) ==
    {f \in {"command", "content", "error"} : a[f] # Absent}

VariantField(type) ==
    IF type = "shell_command" THEN "command"
    ELSE IF type = "response" THEN "content"
    ELSE "error"

WellFormedAction(a) ==
    /\ a.type \in {"shell_command", "response", "error"}
    /\ PayloadFields(a) = {VariantField(a.type)}
    /\ IsStr(a[VariantField(a.type)])

\* _execute_action has been entered with the action
ReachedExecute ==
    /\ InCall
    /\ \/ pc \in {"execute", "communicate"}
       \/ pc = "returned" /\ envelope.status = "success"

C23_ActionWellFormed ==
    ReachedExecute =>
        /\ WellFormedAction(action)
        /\ (pc = "returned" /\ IsStr(result.error)) =>
              ~StartsWith(result.error.s, UnknownActionMsg)

\* both producers have delivered: a fast-path action and a parsed reply
C23_Witness ==
    /\ ReachedExecute
    /\ pc = "execute"
    /\ calls = 2
    /\ OnModelPath
    /\ action.type = "response"
    /\ \E i \in 1..Len(command_history) :
          IsStr(command_history[i]) /\ HasFastPrefix(command_history[i].s)

(***************************************************************************)
(* C24.  When the reply of the model client is not text, the parser        *)
(* returns an error action whose reason starts with the parse-failure      *)
(* message and which keeps the reply, and process_command returns a        *)
(* success envelope with action "error".                                   *)
(***************************************************************************)
NonTextReply == OnModelPath /\ pc \in {"execute", "returned"} /\ ~IsStr(llm_response)

C24_ParseFailureReported ==
    (InCall /\ NonTextReply) =>
        /\ action.type = "error"
        /\ IsStr(action.error)
        /\ StartsWith(action.error.s, ParseFailedMsg)
        /\ action.original_response = llm_response
        /\ spawns = 0
        /\ pc = "returned" =>
              /\ envelope = MkEnvelope("success", "error", result, Absent)
              /\ result.error = action.error
              /\ ~escaped

C24_Witness ==
    /\ InCall
    /\ NonTextReply
    /\ llm_response = PyNone
    /\ pc = "returned"
    /\ envelope.status = "success"
    /\ envelope.action = "error"

(***************************************************************************)
(* C25.  Frame conditions.  No step of a constructed Agent changes the     *)
(* client's mode, URLs or model name; process_command appends exactly one  *)
(* entry to command_history, leaves `running` alone and runs whatever      *)
(* `running` is; start and stop change `running` and nothing else.         *)
(***************************************************************************)
\* the step is the entry of a process_command call
CallEntered == calls' = calls + 1

\* the step belongs to a process_command call: its entry or a later step
CallStepTaken == CallEntered \/ pc' # pc

C25_FrameConditions ==
    [][ (agent = "ready" /\ agent' = "ready") =>
            /\ llm' = llm
            /\ cfg' = cfg
            /\ client' = client
            /\ CallEntered =>
                  /\ Len(command_history') = Len(command_history) + 1
                  /\ SubSeq(command_history', 1, Len(command_history)) = command_history
                  /\ command_history'[Len(command_history')] = command'
            /\ ~CallEntered => command_history' = command_history
            /\ CallStepTaken => running' = running
            /\ running' # running =>
                  /\ command_history' = command_history
                  /\ <<pc, callVars, genVars>>' = <<pc, callVars, genVars>>
      ]_vars

\* two calls have returned on an Agent that is not running, each with its entry
\* in the history, and the mode is still the one the configuration selects
C25_Witness ==
    /\ Returned
    /\ ~running
    /\ calls = 2
    /\ Len(command_history) = 2
    /\ command_history[2] = command
    /\ llm.mode = select_mode(cfg)

(***************************************************************************)
(* C26.  In direct mode, whether or not the model path exists, generate    *)
(* makes no network call and returns the placeholder text followed by the  *)
(* prompt verbatim: the text is a function of the prompt alone, whatever   *)
(* max_tokens, temperature and top_p are and whatever was called before.   *)
(***************************************************************************)
\* a generate call of a client on its own, in direct mode, has returned
DirectGenerated ==
    /\ client = "ready"
    /\ agent = "none"
    /\ llm.mode = "direct"
    /\ pc = "generated"

C26_DirectModeDeterministic ==
    /\ (client = "ready" /\ llm.mode = "direct") =>
          /\ llm.model = PyStr(DummyModelName)
          /\ ctor_error = Absent
          /\ http_log = <<>>
    /\ DirectGenerated =>
          /\ llm_response = PyStr(DummyPrefix \o prompt.s)
          /\ SubSeq(llm_response.s, Len(DummyPrefix) + 1, Len(llm_response.s)) = prompt.s
          /\ transport = "direct"
          /\ generate_calls = 1

C26_Witness ==
    /\ DirectGenerated
    /\ prompt = PyStr(ReplyShell)
    /\ llm_response = PyStr(DummyPrefix \o ReplyShell)
    /\ http_log = <<>>

(***************************************************************************)
(* C27.  When generate returns one of its error texts for a command that   *)
(* is not on the fast path, and the text holds no protocol block,          *)
(* process_command returns {status: success, action: response, result:     *)
(* {output: that text}} and spawns nothing: the envelope is the one a      *)
(* model reply of the same text gets.                                      *)
(***************************************************************************)
IsOllamaErrorText(v) ==
    /\ IsStr(v)
    /\ \/ v.s = OllamaParseMsg
       \/ StartsWith(v.s, OllamaStatusMsg)
       \/ StartsWith(v.s, OllamaCommMsg)
       \/ StartsWith(v.s, OllamaUnexpectedMsg)

\* the transport of the generate call of this process_command call failed:
\* neither Ollama endpoint, or the API endpoint, delivered a reply
TransportFailed ==
    \/ /\ transport = "ollama"
       /\ Len(http_log) = 2
       /\ ~CompletionYielded(http_log[1].outcome)
       /\ ~ChatYielded(http_log[2].outcome)
    \/ /\ transport = "api"
       /\ Len(http_log) = 1
       /\ ~(/\ BodyHasResponse(http_log[1].outcome)
            /\ http_log[1].outcome.status < HTTP_ERROR_MIN)

\* the text went through the parser and the executor as a plain answer
SurfacedAsAnswer ==
    /\ action = ResponseAction(llm_response)
    /\ spawns = 0
    /\ proc = NoProc
    /\ pc = "returned" =>
          /\ result = MkResult("absent", Absent, Absent, Absent, llm_response, Absent)
          /\ envelope = MkEnvelope("success", "response", result, Absent)

C27_TransportFailureIsOrdinaryAnswer ==
    (InCall /\ OnModelPath /\ TransportFailed) =>
        /\ pc \in {"generated", "execute", "returned"} =>
              IsOllamaErrorText(llm_response) \/ IsApiErrorText(llm_response)
        /\ pc \in {"execute", "returned"} =>
              SurfacedAsAnswer \/ ~HoldsNoBlock(llm_response.s)

C27_Witness ==
    /\ InCall
    /\ OnModelPath
    /\ TransportFailed
    /\ pc = "returned"
    /\ transport = "ollama"
    /\ http_log[2].outcome.kind = "exception"
    /\ StartsWith(llm_response.s, OllamaCommMsg)
    /\ HoldsNoBlock(llm_response.s)
    /\ envelope = MkEnvelope("success", "response", result, Absent)
    /\ result.output = llm_response

(***************************************************************************)
(* C28.  Every process_command call eventually returns an envelope, given  *)
(* that every HTTP request answers or times out and every subprocess exits *)
(* or times out: the k-th call, once entered, reaches its return with at   *)
(* most one generate call and at most one subprocess spawned.              *)
(***************************************************************************)
CallReturned(k) ==
    /\ calls = k
    /\ pc = "returned"
    /\ envelope # NoEnvelope
    /\ generate_calls <= 1
    /\ spawns <= 1

C28_CallEventuallyReturns ==
    \A k \in 1..MaxLiveCalls :
        (agent = "ready" /\ calls = k /\ pc # "returned") ~> CallReturned(k)

\* a call that went through the model and then timed out on its subprocess
\* has returned
C28_Witness ==
    /\ CallReturned(1)
    /\ agent = "ready"
    /\ generate_calls = 1
    /\ spawns = 1
    /\ result = timeout_result

(***************************************************************************)
(* C29.  For every n from 0 to the bound, fibonacci_memo, fibonacci_       *)
(* iterative and fibonacci_matrix return the n-th Fibonacci number, and    *)
(* fibonacci_memo does so whatever earlier calls, in whatever order, left  *)
(* in its shared default dict.                                             *)
(***************************************************************************)
\* the Fibonacci numbers: F(0) = 0, F(1) = 1, F(n) = F(n-1) + F(n-2)
RECURSIVE F(_)
F(n) == IF n = 0 THEN 0 ELSE IF n = 1 THEN 1 ELSE F(n - 1) + F(n - 2)

C29_FibonacciAgree ==
    /\ fib # NoFib => fib.value = F(fib.n)
    /\ \A k \in DOMAIN memo : memo[k] = F(k)
    /\ \A n \in 0..MaxFib :
          /\ fibonacci_memo(n, memo).value = F(n)
          /\ fibonacci_iterative(n) = F(n)
          /\ fibonacci_matrix(n) = F(n)

\* fibonacci_memo has answered for a small argument out of a dict that an
\* earlier call on a larger argument filled
C29_Witness ==
    /\ fib.fn = "memo"
    /\ fib.n < MaxFib
    /\ fib.n >= 2
    /\ MaxFib \in DOMAIN memo
    /\ fib.value = memo[fib.n]
    /\ fib.value = fibonacci_matrix(fib.n)

=============================================================================
